---- MODULE Spec2Model ----
(***************************************************************************)
(* The local record store of IdeaTracker (src/src/lib/storage.ts): one     *)
(* JSON document under one localStorage key, holding four collections and  *)
(* four auto-increment counters.  Every operation loads the whole          *)
(* document, changes it in memory and writes the whole document back.      *)
(*                                                                         *)
(* Records keep the fields the store's logic reads or stamps.  The free    *)
(* text fields a handler only copies from its arguments into the record    *)
(* (description, observed_context, severity, frequency, tags, pitch, ...)  *)
(* are all handled like title, which stands for them.                      *)
(***************************************************************************)
EXTENDS Integers, Sequences, FiniteSets, TLC

\* ------------------------------------------------------------------ bounds
\* createProblem and createIdea are not called once their counter is MaxId;
\* id arguments range over 1..MaxId.
MaxId == 2
\* createNote is not called once the notes counter is MaxNoteId.
MaxNoteId == 1
\* No link is minted once the links counter would pass MaxLinkId ...
MaxLinkId == 2
\* ... MaxLinkIdStore in the specification of the whole store ...
MaxLinkIdStore == 1
\* ... and MaxLinkIdLinks in the specification of the link operations, where
\* createProblem and createIdea stop at MaxIdLinks.
MaxLinkIdLinks == 4
MaxIdLinks == 1
\* createIdea stops at MaxIdRecords in the specification of the updates.
MaxIdRecords == 1
\* Longest problem_ids list handed to setProblemLinksForIdea.
MaxSelection == 2
\* The clock is advanced at most MaxTicks times.
MaxTicks == 1
\* Counter cap of the listing specification (three consecutive creates).
MaxOrderId == 3
MaxRecentId == 6

\* ----------------------------------------------------------- value domains
\* number | null: ids start at 1, so 0 is free to stand for null.
Null == 0
\* Milliseconds per second, the unit of Date.getTime().
MsPerSec == 1000
\* The clock reading at Init, one millisecond before a full second.
ClockStart == 999

CounterNames == {"problems", "ideas", "notes", "links"}

\* localStorage.getItem(STORAGE_KEY) when the key was never set.
NoItem == <<>>

VARIABLES
  stored,     \* the text under STORAGE_KEY, or NoItem
  hasWindow,  \* typeof window !== 'undefined'
  clock,      \* what new Date() reads, in milliseconds
  watched,    \* the operations whose calls the two history variables record
  last,       \* the latest call if it is a watched one: name, arguments, result,
              \* the text stored before it, and whether it repeats the call before it
  issued,     \* per collection, the ids watched create calls returned, in call order
  quotaExceeded,  \* whether localStorage.setItem throws (the origin's quota is used up)
  pending,    \* the handler that has loaded the document and not yet returned, if any
  pendingOther,  \* the same for a second context on the same localStorage (another tab)
  page        \* the state of the Ideas page component, and its last two toggles

vars ==
  <<stored, hasWindow, clock, watched, last, issued, quotaExceeded, pending, pendingOther,
    page>>

\* ------------------------------------------------------------ sequences
Range(s) == {s[k] : k \in 1..Len(s)}

RECURSIVE SeqsUpTo(_, _)
SeqsUpTo(S, n) ==
  IF n = 0 THEN {<<>>}
  ELSE LET shorter == SeqsUpTo(S, n - 1)
       IN shorter \cup {Append(s, x) : s \in {t \in shorter : Len(t) = n - 1}, x \in S}

\* ------------------------------------------------------------ timestamps
\* Date.prototype.toISOString: the instant split into its seconds and its
\* three millisecond digits ("...:ss.mmmZ").
toISOString(ms) == <<ms \div MsPerSec, ms % MsPerSec>>

\* new Date(iso).getTime()
getTime(iso) == iso[1] * MsPerSec + iso[2]

\* ------------------------------------------------------------------ JSON
EmptyData ==
  [problems |-> <<>>, ideas |-> <<>>, notes |-> <<>>, links |-> <<>>,
   counters |-> [problems |-> 0, ideas |-> 0, notes |-> 0, links |-> 0]]

\* JSON.stringify writes each object as its values in key order.
EncProblem(p) == <<p.id, p.title, p.status, p.created_at, p.updated_at>>
EncIdea(i) == <<i.id, i.title, i.status, i.created_at, i.updated_at>>
EncNote(n) == <<n.id, n.content, n.problem_id, n.idea_id, n.created_at>>
EncLink(l) == <<l.id, l.problem_id, l.idea_id>>
EncCounters(c) == <<c.problems, c.ideas, c.notes, c.links>>

DecProblem(t) ==
  [id |-> t[1], title |-> t[2], status |-> t[3], created_at |-> t[4], updated_at |-> t[5]]
DecIdea(t) ==
  [id |-> t[1], title |-> t[2], status |-> t[3], created_at |-> t[4], updated_at |-> t[5]]
DecNote(t) ==
  [id |-> t[1], content |-> t[2], problem_id |-> t[3], idea_id |-> t[4], created_at |-> t[5]]
DecLink(t) == [id |-> t[1], problem_id |-> t[2], idea_id |-> t[3]]
DecCounters(t) == [problems |-> t[1], ideas |-> t[2], notes |-> t[3], links |-> t[4]]

JsonStringify(d) ==
  <<[k \in 1..Len(d.problems) |-> EncProblem(d.problems[k])],
    [k \in 1..Len(d.ideas) |-> EncIdea(d.ideas[k])],
    [k \in 1..Len(d.notes) |-> EncNote(d.notes[k])],
    [k \in 1..Len(d.links) |-> EncLink(d.links[k])],
    EncCounters(d.counters)>>

JsonParse(text) ==
  [problems |-> [k \in 1..Len(text[1]) |-> DecProblem(text[1][k])],
   ideas |-> [k \in 1..Len(text[2]) |-> DecIdea(text[2][k])],
   notes |-> [k \in 1..Len(text[3]) |-> DecNote(text[3][k])],
   links |-> [k \in 1..Len(text[4]) |-> DecLink(text[4][k])],
   counters |-> DecCounters(text[5])]

\* ------------------------------------------------------- load and save
\* getStorageData's result on storage text st.
LoadFrom(st) ==
  IF ~hasWindow THEN EmptyData
  ELSE IF st = NoItem THEN EmptyData
  ELSE JsonParse(st)

\* Mutant: the load stores nothing.
TextAfterLoadOnly(st) == st

\* The text under the key once getStorageData has returned.
TextAfterLoad(st) ==
  IF ~hasWindow THEN st
  ELSE IF st = NoItem THEN JsonStringify(EmptyData)
  ELSE st

getStorageData == LoadFrom(stored)

\* Mutant: the save does not look for a window.
saveStorageDataAnywhere(st, data) == JsonStringify(data)

\* The text under the key once saveStorageData(data) has returned.
saveStorageData(st, data) == IF ~hasWindow THEN st ELSE JsonStringify(data)

\* Mutant: the next id is taken from the size of the collection.
getNextIdFromLength(data, type) ==
  [data |-> [data EXCEPT !.counters[type] = Len(data[type]) + 1],
   id |-> Len(data[type]) + 1]

getNextId(data, type) ==
  [data |-> [data EXCEPT !.counters[type] = @ + 1], id |-> data.counters[type] + 1]

\* --------------------------------------------------------------- problems
\* Array.prototype.findIndex's "no such element".
NotFound == -1

findIndex(s, id) ==
  IF \E k \in 1..Len(s) : s[k].id = id
  THEN CHOOSE k \in 1..Len(s) : s[k].id = id /\ \A j \in 1..(k - 1) : s[j].id # id
  ELSE NotFound

createProblemOn(data, title, status, now) ==
  LET r == getNextId(data, "problems")
      problem == [id |-> r.id, title |-> title, status |-> status,
                  created_at |-> now, updated_at |-> now]
  IN [data |-> [r.data EXCEPT !.problems = Append(@, problem)],
      ret |-> r.id, save |-> TRUE]

\* Mutant: an update of an id that is not there adds a record with that id.
updateProblemUpserting(data, id, title, status, now) ==
  LET index == findIndex(data.problems, id)
  IN IF index = NotFound
     THEN [data |-> [data EXCEPT !.problems =
                       Append(@, [id |-> id, title |-> title, status |-> status,
                                  created_at |-> now, updated_at |-> now])],
           ret |-> TRUE, save |-> TRUE]
     ELSE [data |-> [data EXCEPT !.problems[index] =
                       [@ EXCEPT !.title = title, !.status = status, !.updated_at = now]],
           ret |-> TRUE, save |-> TRUE]

updateProblemOn(data, id, title, status, now) ==
  LET index == findIndex(data.problems, id)
  IN IF index = NotFound
     THEN [data |-> data, ret |-> FALSE, save |-> FALSE]
     ELSE [data |-> [data EXCEPT !.problems[index] =
                       [@ EXCEPT !.title = title, !.status = status, !.updated_at = now]],
           ret |-> TRUE, save |-> TRUE]

\* Mutant: the delete leaves the links of the problem in the store.
deleteProblemKeepingLinks(data, id) ==
  LET kept == SelectSeq(data.problems, LAMBDA p : p.id # id)
  IN IF Len(kept) < Len(data.problems)
     THEN [data |-> [data EXCEPT
                       !.problems = kept,
                       !.notes = [k \in 1..Len(@) |->
                                    IF @[k].problem_id = id
                                    THEN [@[k] EXCEPT !.problem_id = Null]
                                    ELSE @[k]]],
           ret |-> TRUE, save |-> TRUE]
     ELSE [data |-> [data EXCEPT !.problems = kept], ret |-> FALSE, save |-> FALSE]

\* Mutant: the notes of the deleted problem are deleted with it.
deleteProblemWithNotes(data, id) ==
  LET kept == SelectSeq(data.problems, LAMBDA p : p.id # id)
  IN IF Len(kept) < Len(data.problems)
     THEN [data |-> [data EXCEPT
                       !.problems = kept,
                       !.links = SelectSeq(@, LAMBDA l : l.problem_id # id),
                       !.notes = SelectSeq(@, LAMBDA n : n.problem_id # id)],
           ret |-> TRUE, save |-> TRUE]
     ELSE [data |-> [data EXCEPT !.problems = kept], ret |-> FALSE, save |-> FALSE]

deleteProblemOn(data, id) ==
  LET kept == SelectSeq(data.problems, LAMBDA p : p.id # id)
  IN IF Len(kept) < Len(data.problems)
     THEN [data |-> [data EXCEPT
                       !.problems = kept,
                       !.links = SelectSeq(@, LAMBDA l : l.problem_id # id),
                       !.notes = [k \in 1..Len(@) |->
                                    IF @[k].problem_id = id
                                    THEN [@[k] EXCEPT !.problem_id = Null]
                                    ELSE @[k]]],
           ret |-> TRUE, save |-> TRUE]
     ELSE [data |-> [data EXCEPT !.problems = kept], ret |-> FALSE, save |-> FALSE]

\* ------------------------------------------------------------------ ideas
\* Mutant: the create saves the new idea and no problem.
createIdeaDroppingProblems(data, title, status, now) ==
  LET r == getNextId(data, "ideas")
      idea == [id |-> r.id, title |-> title, status |-> status,
               created_at |-> now, updated_at |-> now]
  IN [data |-> [r.data EXCEPT !.ideas = Append(@, idea), !.problems = <<>>],
      ret |-> r.id, save |-> TRUE]

\* Mutant: ideas take their ids from the counter of the problems.
createIdeaOnProblemsCounter(data, title, status, now) ==
  LET r == getNextId(data, "problems")
      idea == [id |-> r.id, title |-> title, status |-> status,
               created_at |-> now, updated_at |-> now]
  IN [data |-> [r.data EXCEPT !.ideas = Append(@, idea)],
      ret |-> r.id, save |-> TRUE]

createIdeaOn(data, title, status, now) ==
  LET r == getNextId(data, "ideas")
      idea == [id |-> r.id, title |-> title, status |-> status,
               created_at |-> now, updated_at |-> now]
  IN [data |-> [r.data EXCEPT !.ideas = Append(@, idea)],
      ret |-> r.id, save |-> TRUE]

\* Mutant: an update stamps created_at as well.
updateIdeaRestamping(data, id, title, status, now) ==
  LET index == findIndex(data.ideas, id)
  IN IF index = NotFound
     THEN [data |-> data, ret |-> FALSE, save |-> FALSE]
     ELSE [data |-> [data EXCEPT !.ideas[index] =
                       [@ EXCEPT !.title = title, !.status = status,
                                 !.created_at = now, !.updated_at = now]],
           ret |-> TRUE, save |-> TRUE]

updateIdeaOn(data, id, title, status, now) ==
  LET index == findIndex(data.ideas, id)
  IN IF index = NotFound
     THEN [data |-> data, ret |-> FALSE, save |-> FALSE]
     ELSE [data |-> [data EXCEPT !.ideas[index] =
                       [@ EXCEPT !.title = title, !.status = status, !.updated_at = now]],
           ret |-> TRUE, save |-> TRUE]

\* Mutant: the cascade clears both references of the notes of the idea.
deleteIdeaClearingBoth(data, id) ==
  LET kept == SelectSeq(data.ideas, LAMBDA i : i.id # id)
  IN IF Len(kept) < Len(data.ideas)
     THEN [data |-> [data EXCEPT
                       !.ideas = kept,
                       !.links = SelectSeq(@, LAMBDA l : l.idea_id # id),
                       !.notes = [k \in 1..Len(@) |->
                                    IF @[k].idea_id = id
                                    THEN [@[k] EXCEPT !.idea_id = Null, !.problem_id = Null]
                                    ELSE @[k]]],
           ret |-> TRUE, save |-> TRUE]
     ELSE [data |-> [data EXCEPT !.ideas = kept], ret |-> FALSE, save |-> FALSE]

\* Mutant: the cascade filters the links on the wrong column.
deleteIdeaWrongColumn(data, id) ==
  LET kept == SelectSeq(data.ideas, LAMBDA i : i.id # id)
  IN IF Len(kept) < Len(data.ideas)
     THEN [data |-> [data EXCEPT
                       !.ideas = kept,
                       !.links = SelectSeq(@, LAMBDA l : l.problem_id # id),
                       !.notes = [k \in 1..Len(@) |->
                                    IF @[k].idea_id = id
                                    THEN [@[k] EXCEPT !.idea_id = Null]
                                    ELSE @[k]]],
           ret |-> TRUE, save |-> TRUE]
     ELSE [data |-> [data EXCEPT !.ideas = kept], ret |-> FALSE, save |-> FALSE]

deleteIdeaOn(data, id) ==
  LET kept == SelectSeq(data.ideas, LAMBDA i : i.id # id)
  IN IF Len(kept) < Len(data.ideas)
     THEN [data |-> [data EXCEPT
                       !.ideas = kept,
                       !.links = SelectSeq(@, LAMBDA l : l.idea_id # id),
                       !.notes = [k \in 1..Len(@) |->
                                    IF @[k].idea_id = id
                                    THEN [@[k] EXCEPT !.idea_id = Null]
                                    ELSE @[k]]],
           ret |-> TRUE, save |-> TRUE]
     ELSE [data |-> [data EXCEPT !.ideas = kept], ret |-> FALSE, save |-> FALSE]

\* ------------------------------------------------------------------ links
hasLink(links, problem_id, idea_id) ==
  \E k \in 1..Len(links) : links[k].problem_id = problem_id /\ links[k].idea_id = idea_id

linkProblemToIdeaOn(data, problem_id, idea_id) ==
  IF hasLink(data.links, problem_id, idea_id)
  THEN [data |-> data, ret |-> FALSE, save |-> FALSE]
  ELSE LET r == getNextId(data, "links")
       IN [data |-> [r.data EXCEPT !.links =
                       Append(@, [id |-> r.id, problem_id |-> problem_id, idea_id |-> idea_id])],
           ret |-> TRUE, save |-> TRUE]

\* Mutant: the unlink removes the first link of the pair only.
unlinkFirstOnly(data, problem_id, idea_id) ==
  LET first == CHOOSE k \in 1..Len(data.links) :
                 /\ data.links[k].problem_id = problem_id /\ data.links[k].idea_id = idea_id
                 /\ \A j \in 1..(k - 1) :
                      ~(data.links[j].problem_id = problem_id /\ data.links[j].idea_id = idea_id)
  IN IF hasLink(data.links, problem_id, idea_id)
     THEN [data |-> [data EXCEPT !.links =
                       SubSeq(@, 1, first - 1) \o SubSeq(@, first + 1, Len(@))],
           ret |-> TRUE, save |-> TRUE]
     ELSE [data |-> data, ret |-> FALSE, save |-> FALSE]

unlinkProblemFromIdeaOn(data, problem_id, idea_id) ==
  LET kept == SelectSeq(data.links,
                        LAMBDA l : ~(l.problem_id = problem_id /\ l.idea_id = idea_id))
  IN [data |-> [data EXCEPT !.links = kept],
      ret |-> Len(kept) < Len(data.links), save |-> Len(kept) < Len(data.links)]

\* data.links.filter(l => l.problem_id === problem_id).map(l => l.idea_id)
ideaIdsOf(links, problem_id) ==
  LET found == SelectSeq(links, LAMBDA l : l.problem_id = problem_id)
  IN [k \in 1..Len(found) |-> found[k].idea_id]

\* data.links.filter(l => l.idea_id === idea_id).map(l => l.problem_id)
problemIdsOf(links, idea_id) ==
  LET found == SelectSeq(links, LAMBDA l : l.idea_id = idea_id)
  IN [k \in 1..Len(found) |-> found[k].problem_id]

\* Mutant: one idea per link of the problem, in link order.
getIdeasPerLink(data, problem_id) ==
  LET ideaIds == ideaIdsOf(data.links, problem_id)
      linked == SelectSeq(ideaIds, LAMBDA id : findIndex(data.ideas, id) # NotFound)
  IN [data |-> data,
      ret |-> [k \in 1..Len(linked) |-> data.ideas[findIndex(data.ideas, linked[k])]],
      save |-> FALSE]

getIdeasForProblemOn(data, problem_id) ==
  LET ideaIds == ideaIdsOf(data.links, problem_id)
  IN [data |-> data,
      ret |-> SelectSeq(data.ideas, LAMBDA i : i.id \in Range(ideaIds)),
      save |-> FALSE]

getProblemsForIdeaOn(data, idea_id) ==
  LET problemIds == problemIdsOf(data.links, idea_id)
  IN [data |-> data,
      ret |-> SelectSeq(data.problems, LAMBDA p : p.id \in Range(problemIds)),
      save |-> FALSE]

getLinkedProblemIdsForIdeaOn(data, idea_id) ==
  [data |-> data, ret |-> problemIdsOf(data.links, idea_id), save |-> FALSE]

\* Mutant: one id is minted for all the links of a call.

RECURSIVE addLinksWithOneId(_, _, _)
addLinksWithOneId(data, idea_id, problem_ids) ==
  IF problem_ids = <<>> THEN data
  ELSE LET id == IF data.links # <<>> /\ data.links[Len(data.links)].idea_id = idea_id
                 THEN data.links[Len(data.links)].id
                 ELSE data.counters.links + 1
           link == [id |-> id, problem_id |-> Head(problem_ids), idea_id |-> idea_id]
       IN addLinksWithOneId([data EXCEPT !.links = Append(@, link), !.counters.links = id],
                            idea_id, Tail(problem_ids))

\* problem_ids.forEach(problem_id => { mint; push })
RECURSIVE addLinks(_, _, _)
addLinks(data, idea_id, problem_ids) ==
  IF problem_ids = <<>> THEN data
  ELSE LET r == getNextId(data, "links")
           link == [id |-> r.id, problem_id |-> Head(problem_ids), idea_id |-> idea_id]
       IN addLinks([r.data EXCEPT !.links = Append(@, link)], idea_id, Tail(problem_ids))

\* Mutant: the links of one call share one id.
setProblemLinksSharingId(data, idea_id, problem_ids) ==
  [data |-> addLinksWithOneId(
              [data EXCEPT !.links = SelectSeq(@, LAMBDA l : l.idea_id # idea_id)],
              idea_id, problem_ids),
   ret |-> "undefined", save |-> TRUE]

\* Mutant: the links are renumbered from 1 on every call.
setProblemLinksRenumbering(data, idea_id, problem_ids) ==
  LET others == SelectSeq(data.links, LAMBDA l : l.idea_id # idea_id)
      cleared == [data EXCEPT !.links = [k \in 1..Len(others) |->
                                           [others[k] EXCEPT !.id = k]],
                              !.counters.links = @ - Len(data.links) + Len(others)]
  IN [data |-> addLinks(cleared, idea_id, problem_ids), ret |-> "undefined", save |-> TRUE]

\* Mutant: the links the idea already has are kept.
setProblemLinksKeepingOld(data, idea_id, problem_ids) ==
  [data |-> addLinks(data, idea_id, problem_ids), ret |-> "undefined", save |-> TRUE]

setProblemLinksForIdeaOn(data, idea_id, problem_ids) ==
  LET cleared == [data EXCEPT !.links = SelectSeq(@, LAMBDA l : l.idea_id # idea_id)]
  IN [data |-> addLinks(cleared, idea_id, problem_ids), ret |-> "undefined", save |-> TRUE]

\* ------------------------------------------------------------------ notes
createNoteOn(data, content, problem_id, idea_id, now) ==
  LET r == getNextId(data, "notes")
      note == [id |-> r.id, content |-> content, problem_id |-> problem_id,
               idea_id |-> idea_id, created_at |-> now]
  IN [data |-> [r.data EXCEPT !.notes = Append(@, note)],
      ret |-> r.id, save |-> TRUE]

\* Mutant: the two references are stored in each other's field.
updateNoteSwappingRefs(data, id, content, problem_id, idea_id) ==
  LET index == findIndex(data.notes, id)
  IN IF index = NotFound
     THEN [data |-> data, ret |-> FALSE, save |-> FALSE]
     ELSE [data |-> [data EXCEPT !.notes[index] =
                       [@ EXCEPT !.content = content, !.problem_id = idea_id,
                                 !.idea_id = problem_id]],
           ret |-> TRUE, save |-> TRUE]

updateNoteOn(data, id, content, problem_id, idea_id) ==
  LET index == findIndex(data.notes, id)
  IN IF index = NotFound
     THEN [data |-> data, ret |-> FALSE, save |-> FALSE]
     ELSE [data |-> [data EXCEPT !.notes[index] =
                       [@ EXCEPT !.content = content, !.problem_id = problem_id,
                                 !.idea_id = idea_id]],
           ret |-> TRUE, save |-> TRUE]

\* Mutant: the notes of the same problem go with the note.
deleteNoteWithSiblings(data, id) ==
  LET kept == SelectSeq(data.notes,
                        LAMBDA n : \A m \in Range(data.notes) :
                                     m.id = id => (n.id # id /\ n.problem_id # m.problem_id))
  IN [data |-> [data EXCEPT !.notes = kept],
      ret |-> Len(kept) < Len(data.notes), save |-> Len(kept) < Len(data.notes)]

\* Mutant: a deleted note gives its id back to the counter.
deleteNoteReclaimingId(data, id) ==
  LET kept == SelectSeq(data.notes, LAMBDA n : n.id # id)
  IN [data |-> [data EXCEPT !.notes = kept,
                            !.counters.notes = @ - (Len(data.notes) - Len(kept))],
      ret |-> Len(kept) < Len(data.notes), save |-> Len(kept) < Len(data.notes)]

deleteNoteOn(data, id) ==
  LET kept == SelectSeq(data.notes, LAMBDA n : n.id # id)
  IN [data |-> [data EXCEPT !.notes = kept],
      ret |-> Len(kept) < Len(data.notes), save |-> Len(kept) < Len(data.notes)]

\* ---------------------------------------------------------------- listing
\* The comparator of every listing: (a, b) => time(b.created_at) - time(a.created_at).
byCreatedDesc(a, b) == getTime(b.created_at) - getTime(a.created_at)

\* Array.prototype.sort is stable: x goes behind every element that does not
\* sort after it.
RECURSIVE insertSorted(_, _)
insertSorted(sorted, x) ==
  IF sorted = <<>> THEN <<x>>
  ELSE IF byCreatedDesc(Head(sorted), x) <= 0
       THEN <<Head(sorted)>> \o insertSorted(Tail(sorted), x)
       ELSE <<x>> \o sorted

RECURSIVE sortFrom(_, _)
sortFrom(sorted, rest) ==
  IF rest = <<>> THEN sorted ELSE sortFrom(insertSorted(sorted, Head(rest)), Tail(rest))

sort(s) == sortFrom(<<>>, s)

\* Mutant: the listing saves the array it sorted.
getAllProblemsSaving(data) ==
  [data |-> [data EXCEPT !.problems = sort(@)], ret |-> sort(data.problems), save |-> TRUE]

getAllProblemsOn(data) == [data |-> data, ret |-> sort(data.problems), save |-> FALSE]
getAllIdeasOn(data) == [data |-> data, ret |-> sort(data.ideas), save |-> FALSE]
getAllNotesOn(data) == [data |-> data, ret |-> sort(data.notes), save |-> FALSE]

getNotesForProblemOn(data, problem_id) ==
  [data |-> data,
   ret |-> sort(SelectSeq(data.notes, LAMBDA n : n.problem_id = problem_id)),
   save |-> FALSE]

getNotesForIdeaOn(data, idea_id) ==
  [data |-> data,
   ret |-> sort(SelectSeq(data.notes, LAMBDA n : n.idea_id = idea_id)),
   save |-> FALSE]

\* Array.prototype.slice(0, limit): a negative limit counts from the end.
slice(s, limit) ==
  LET end == IF limit < 0 THEN Len(s) + limit
             ELSE IF limit < Len(s) THEN limit ELSE Len(s)
  IN SubSeq(s, 1, IF end < 0 THEN 0 ELSE end)

\* "limit = 5"
DefaultLimit == 5

\* Mutant: the first records in storage order.
getRecentProblemsUnsorted(data, limit) ==
  [data |-> data, ret |-> slice(data.problems, limit), save |-> FALSE]

getRecentProblemsOn(data, limit) ==
  [data |-> data, ret |-> slice(getAllProblemsOn(data).ret, limit), save |-> FALSE]

getRecentIdeasOn(data, limit) ==
  [data |-> data, ret |-> slice(getAllIdeasOn(data).ret, limit), save |-> FALSE]

\* ------------------------------------------------------------ lookups
\* "Problem | null": the record, or this.
NullRecord == <<>>

\* s.find(r => r.id === id) || null
find(s, id) == IF findIndex(s, id) = NotFound THEN NullRecord ELSE s[findIndex(s, id)]

getProblemByIdOn(data, id) == [data |-> data, ret |-> find(data.problems, id), save |-> FALSE]
getIdeaByIdOn(data, id) == [data |-> data, ret |-> find(data.ideas, id), save |-> FALSE]
getNoteByIdOn(data, id) == [data |-> data, ret |-> find(data.notes, id), save |-> FALSE]

\* s.forEach(r => { counts[r.status] = (counts[r.status] || 0) + 1 }), on
\* counts a Record<string, number>: a function whose domain is its keys.
RECURSIVE countEach(_, _)
countEach(counts, s) ==
  IF s = <<>> THEN counts
  ELSE LET status == Head(s).status
           sofar == IF status \in DOMAIN counts THEN counts[status] ELSE 0
       IN countEach([k \in DOMAIN counts \cup {status} |->
                       IF k = status THEN sofar + 1 ELSE counts[k]],
                    Tail(s))

\* Mutant: every status starts with a count of 0.
getProblemsCountWithZeros(data) ==
  [data |-> data,
   ret |-> countEach([k \in {"open", "solved"} |-> 0], data.problems),
   save |-> FALSE]

getProblemsCountByStatusOn(data) ==
  [data |-> data, ret |-> countEach(<<>>, data.problems), save |-> FALSE]

getIdeasCountByStatusOn(data) ==
  [data |-> data, ret |-> countEach(<<>>, data.ideas), save |-> FALSE]

\* -------------------------------------------------------- data management
exportAllDataOn(data) == [data |-> data, ret |-> data, save |-> FALSE]

\* localStorage.setItem throws when the quota is used up; saveStorageData
\* lets the exception through.
setItemThrows == hasWindow /\ quotaExceeded

\* importAllData and clearAllData write to the storage text st without
\* loading it first.
\* Mutant: the import recounts the counters from the collections.
importAllDataRecounting(st, data) ==
  [text |-> saveStorageData(st, [data EXCEPT
               !.counters = [c \in CounterNames |-> Len(data[c])]]),
   ret |-> TRUE]

\* Mutant: the import turns down a document whose links reference records
\* it does not hold.
importAllDataValidating(st, data) ==
  IF setItemThrows \/ \E k \in 1..Len(data.links) :
       \/ findIndex(data.problems, data.links[k].problem_id) = NotFound
       \/ findIndex(data.ideas, data.links[k].idea_id) = NotFound
  THEN [text |-> st, ret |-> FALSE]
  ELSE [text |-> saveStorageData(st, data), ret |-> TRUE]

\* try { saveStorageData(data); return true } catch { return false }
importAllDataOn(st, data) ==
  IF setItemThrows
  THEN [text |-> st, ret |-> FALSE]
  ELSE [text |-> saveStorageData(st, data), ret |-> TRUE]

\* Mutant: the clear empties the collections and keeps the counters.
clearAllDataKeepingCounters(st) ==
  saveStorageData(st, [EmptyData EXCEPT !.counters = LoadFrom(st).counters])

clearAllDataOn(st) == saveStorageData(st, EmptyData)

\* ---------------------------------------------------------------- actions
Ids == 1..MaxId
Refs == Ids \cup {Null}
Selections == SeqsUpTo(Ids, MaxSelection)

now == toISOString(clock)

Idle ==
  [op |-> "idle", args |-> <<>>, ret |-> "undefined", pre |-> NoItem, again |-> FALSE,
   raised |-> FALSE]

\* No handler is between its load and its return.
NoCall == [op |-> "none"]

\* The history variables after a call of op that returned ret.
Record(op, args, ret) ==
  /\ last' = IF op \in watched
             THEN [op |-> op, args |-> args, ret |-> ret, pre |-> stored,
                   again |-> (last.op = op /\ last.args = args), raised |-> FALSE]
             ELSE Idle
  /\ issued' = IF op \in watched /\ op \in {"createProblem", "createIdea", "createNote"}
               THEN [issued EXCEPT ![op] = Append(@, ret)]
               ELSE issued

\* The history variables after a call of op that ended in an exception:
\* the setItem that threw stored nothing, and the caller got no result.
Raise(op, args) ==
  /\ stored' = stored
  /\ last' = IF op \in watched
             THEN [op |-> op, args |-> args, ret |-> "undefined", pre |-> stored,
                   again |-> (last.op = op /\ last.args = args), raised |-> TRUE]
             ELSE Idle
  /\ issued' = issued

\* A handler that starts with getStorageData(): r is what it computed from
\* the loaded document, and r.save whether it reached saveStorageData.  The
\* first setItem it reaches is the one of the load when nothing is stored,
\* else the one of the save.
Call(op, args, r) ==
  /\ IF setItemThrows /\ (stored = NoItem \/ r.save)
     THEN Raise(op, args)
     ELSE /\ stored' = IF r.save
                       THEN saveStorageData(TextAfterLoad(stored), r.data)
                       ELSE TextAfterLoad(stored)
          /\ Record(op, args, r.ret)
  /\ UNCHANGED <<hasWindow, clock, watched, page, quotaExceeded, pending, pendingOther>>

createProblem(cap, title, status) ==
  /\ getStorageData.counters.problems < cap
  /\ Call("createProblem", <<title, status>>,
          createProblemOn(getStorageData, title, status, now))

updateProblem(id, title, status) ==
  Call("updateProblem", <<id, title, status>>,
       updateProblemOn(getStorageData, id, title, status, now))

deleteProblem(id) ==
  Call("deleteProblem", <<id>>, deleteProblemOn(getStorageData, id))

getAllProblems == Call("getAllProblems", <<>>, getAllProblemsOn(getStorageData))

createIdea(cap, title, status) ==
  /\ getStorageData.counters.ideas < cap
  /\ Call("createIdea", <<title, status>>,
          createIdeaOn(getStorageData, title, status, now))

updateIdea(id, title, status) ==
  Call("updateIdea", <<id, title, status>>,
       updateIdeaOn(getStorageData, id, title, status, now))

deleteIdea(id) ==
  Call("deleteIdea", <<id>>, deleteIdeaOn(getStorageData, id))

getAllIdeas == Call("getAllIdeas", <<>>, getAllIdeasOn(getStorageData))

linkProblemToIdea(cap, problem_id, idea_id) ==
  /\ getStorageData.counters.links < cap
  /\ Call("linkProblemToIdea", <<problem_id, idea_id>>,
          linkProblemToIdeaOn(getStorageData, problem_id, idea_id))

unlinkProblemFromIdea(problem_id, idea_id) ==
  Call("unlinkProblemFromIdea", <<problem_id, idea_id>>,
       unlinkProblemFromIdeaOn(getStorageData, problem_id, idea_id))

setProblemLinksForIdea(cap, idea_id, problem_ids) ==
  /\ getStorageData.counters.links + Len(problem_ids) <= cap
  /\ Call("setProblemLinksForIdea", <<idea_id, problem_ids>>,
          setProblemLinksForIdeaOn(getStorageData, idea_id, problem_ids))

createNote(cap, content, problem_id, idea_id) ==
  /\ getStorageData.counters.notes < cap
  /\ Call("createNote", <<content, problem_id, idea_id>>,
          createNoteOn(getStorageData, content, problem_id, idea_id, now))

updateNote(id, content, problem_id, idea_id) ==
  Call("updateNote", <<id, content, problem_id, idea_id>>,
       updateNoteOn(getStorageData, id, content, problem_id, idea_id))

deleteNote(id) ==
  Call("deleteNote", <<id>>, deleteNoteOn(getStorageData, id))

getAllNotes == Call("getAllNotes", <<>>, getAllNotesOn(getStorageData))

getProblemById(id) == Call("getProblemById", <<id>>, getProblemByIdOn(getStorageData, id))
getIdeaById(id) == Call("getIdeaById", <<id>>, getIdeaByIdOn(getStorageData, id))
getNoteById(id) == Call("getNoteById", <<id>>, getNoteByIdOn(getStorageData, id))

getRecentProblems(limit) ==
  Call("getRecentProblems", <<limit>>, getRecentProblemsOn(getStorageData, limit))

getRecentIdeas(limit) ==
  Call("getRecentIdeas", <<limit>>, getRecentIdeasOn(getStorageData, limit))

\* The calls that leave the limit out.
getRecentProblemsDefault ==
  Call("getRecentProblems", <<>>, getRecentProblemsOn(getStorageData, DefaultLimit))

getRecentIdeasDefault ==
  Call("getRecentIdeas", <<>>, getRecentIdeasOn(getStorageData, DefaultLimit))

getIdeasForProblem(problem_id) ==
  Call("getIdeasForProblem", <<problem_id>>, getIdeasForProblemOn(getStorageData, problem_id))

getProblemsForIdea(idea_id) ==
  Call("getProblemsForIdea", <<idea_id>>, getProblemsForIdeaOn(getStorageData, idea_id))

getLinkedProblemIdsForIdea(idea_id) ==
  Call("getLinkedProblemIdsForIdea", <<idea_id>>,
       getLinkedProblemIdsForIdeaOn(getStorageData, idea_id))

getNotesForProblem(problem_id) ==
  Call("getNotesForProblem", <<problem_id>>, getNotesForProblemOn(getStorageData, problem_id))

getNotesForIdea(idea_id) ==
  Call("getNotesForIdea", <<idea_id>>, getNotesForIdeaOn(getStorageData, idea_id))

getProblemsCountByStatus ==
  Call("getProblemsCountByStatus", <<>>, getProblemsCountByStatusOn(getStorageData))

getIdeasCountByStatus ==
  Call("getIdeasCountByStatus", <<>>, getIdeasCountByStatusOn(getStorageData))

exportAllData == Call("exportAllData", <<>>, exportAllDataOn(getStorageData))

importAllData(data) ==
  /\ stored' = importAllDataOn(stored, data).text
  /\ Record("importAllData", <<data>>, importAllDataOn(stored, data).ret)
  /\ UNCHANGED <<hasWindow, clock, watched, page, quotaExceeded, pending, pendingOther>>

\* importAllData(exportAllData()): the argument is what the export returned.
importExported ==
  LET exported == exportAllDataOn(getStorageData).ret
      r == importAllDataOn(TextAfterLoad(stored), exported)
  IN /\ IF setItemThrows /\ stored = NoItem
        THEN Raise("importExported", <<>>)
        ELSE /\ stored' = r.text
             /\ Record("importExported", <<>>, r.ret)
     /\ UNCHANGED <<hasWindow, clock, watched, page, quotaExceeded, pending, pendingOther>>

clearAllData ==
  /\ IF setItemThrows
     THEN Raise("clearAllData", <<>>)
     ELSE /\ stored' = clearAllDataOn(stored)
          /\ Record("clearAllData", <<>>, "undefined")
  /\ UNCHANGED <<hasWindow, clock, watched, page, quotaExceeded, pending, pendingOther>>

\* Time passes between two calls; calls within one millisecond read the
\* same clock.
Tick ==
  /\ clock < ClockStart + MaxTicks
  /\ clock' = clock + 1
  /\ UNCHANGED <<stored, hasWindow, watched, page, last, issued, quotaExceeded, pending, pendingOther>>

\* The same handlers taken one localStorage access at a time.  Load is the
\* handler up to the return of getStorageData(), which stores the empty
\* document when nothing is stored; r is what the handler goes on to compute
\* from the document it loaded.
Load(op, args, r) ==
  /\ pending.op = "none"
  /\ IF setItemThrows /\ stored = NoItem
     THEN Raise(op, args) /\ pending' = pending
     ELSE /\ stored' = TextAfterLoad(stored)
          /\ pending' = [op |-> op, args |-> args, loaded |-> getStorageData,
                         r |-> r, pre |-> stored]
          /\ UNCHANGED <<last, issued>>
  /\ UNCHANGED <<hasWindow, clock, watched, page, quotaExceeded, pendingOther>>

\* The rest of the handler: its saveStorageData, if it reaches one, and its
\* return.
Return ==
  /\ pending.op # "none"
  /\ IF setItemThrows /\ pending.r.save
     THEN Raise(pending.op, pending.args)
     ELSE /\ stored' = IF pending.r.save
                       THEN saveStorageData(stored, pending.r.data)
                       ELSE stored
          /\ Record(pending.op, pending.args, pending.r.ret)
  /\ pending' = NoCall
  /\ UNCHANGED <<hasWindow, clock, watched, page, quotaExceeded, pendingOther>>

\* Load and Return of a handler in the second context.  Each context runs
\* its handlers to the end one after the other; between the load and the
\* save of one context the other may run its own.
LoadOther(op, args, r) ==
  /\ pendingOther.op = "none"
  /\ IF setItemThrows /\ stored = NoItem
     THEN Raise(op, args) /\ pendingOther' = pendingOther
     ELSE /\ stored' = TextAfterLoad(stored)
          /\ pendingOther' = [op |-> op, args |-> args, loaded |-> getStorageData,
                              r |-> r, pre |-> stored]
          /\ UNCHANGED <<last, issued>>
  /\ UNCHANGED <<hasWindow, clock, watched, page, quotaExceeded, pending>>

ReturnOther ==
  /\ pendingOther.op # "none"
  /\ IF setItemThrows /\ pendingOther.r.save
     THEN Raise(pendingOther.op, pendingOther.args)
     ELSE /\ stored' = IF pendingOther.r.save
                       THEN saveStorageData(stored, pendingOther.r.data)
                       ELSE stored
          /\ Record(pendingOther.op, pendingOther.args, pendingOther.r.ret)
  /\ pendingOther' = NoCall
  /\ UNCHANGED <<hasWindow, clock, watched, page, quotaExceeded, pending>>

\* Other scripts of the origin use up the quota of localStorage, or free it.
\* The history then no longer shows a call made under the present quota.
QuotaChanges ==
  /\ quotaExceeded' = ~quotaExceeded
  /\ last' = Idle
  /\ UNCHANGED <<stored, hasWindow, clock, watched, page, issued, pending, pendingOther>>

\* ------------------------------------------------------------- arguments
\* What the callers pass.  The specification of the whole store keeps one
\* title and one status; the specifications of the updates vary them.
Titles == {"t1", "t2"}
ProblemStatuses == {"open", "solved"}
IdeaStatuses == {"new", "parked"}
Contents == {"c1", "c2"}

\* A document a backup file may hold.  importAllData checks nothing: this one
\* links records that do not exist.
BackupDangling ==
  [EmptyData EXCEPT
     !.links = <<[id |-> 1, problem_id |-> 2, idea_id |-> 2]>>,
     !.counters.links = 1]

Backups == {BackupDangling}

\* A backup taken of one problem linked to one idea, both created at the
\* instant of 500 ms.
BackupPair ==
  [problems |-> <<[id |-> 1, title |-> "t2", status |-> "solved",
                   created_at |-> toISOString(500), updated_at |-> toISOString(500)]>>,
   ideas |-> <<[id |-> 1, title |-> "t2", status |-> "parked",
                created_at |-> toISOString(500), updated_at |-> toISOString(500)]>>,
   notes |-> <<>>,
   links |-> <<[id |-> 1, problem_id |-> 1, idea_id |-> 1]>>,
   counters |-> [problems |-> 1, ideas |-> 1, notes |-> 0, links |-> 1]]

\* ------------------------------------------------------------ Ideas page
\* The text under the key once a handler that loaded st has returned r.
textAfter(st, r) ==
  IF r.save THEN saveStorageData(TextAfterLoad(st), r.data) ELSE TextAfterLoad(st)

\* s.map(r => r.id)
idsIn(s) == [k \in 1..Len(s) |-> s[k].id]

\* The form of startNew.
EmptyForm == [title |-> "", status |-> "new", linkedProblemIds |-> <<>>]

\* No toggle since the form was opened.
NoToggles == [toggled |-> <<>>, before |-> <<>>]

\* The useState initial values: the component before its first effect, and
\* after navigating away from it.
NoPage ==
  [mounted |-> FALSE, ideas |-> <<>>, allProblems |-> <<>>, selectedIdea |-> NullRecord,
   isEditing |-> FALSE, showForm |-> FALSE, confirmDelete |-> FALSE, form |-> EmptyForm,
   toggles |-> NoToggles]

\* loadData(): the two listings of the document stored under st.
loadData(pg, st) ==
  [pg EXCEPT !.ideas = idsIn(getAllIdeasOn(LoadFrom(st)).ret),
             !.allProblems = idsIn(getAllProblemsOn(LoadFrom(st)).ret)]

\* The first effect of the component.
mount ==
  /\ ~page.mounted
  /\ ~(setItemThrows /\ stored = NoItem)
  /\ stored' = TextAfterLoad(stored)
  /\ page' = loadData([page EXCEPT !.mounted = TRUE], stored')
  /\ last' = Idle
  /\ UNCHANGED <<hasWindow, clock, watched, issued, quotaExceeded, pending, pendingOther>>

\* Navigating to another page drops the component and its state.
unmount ==
  /\ page.mounted
  /\ page' = NoPage
  /\ last' = Idle
  /\ UNCHANGED <<stored, hasWindow, clock, watched, issued, quotaExceeded, pending,
                 pendingOther>>

\* A click on a row of the list.
selectIdea(id) ==
  /\ page.mounted
  /\ id \in Range(page.ideas)
  /\ LET idea == getIdeaByIdOn(getStorageData, id).ret
     IN page' = IF idea # NullRecord
                THEN [page EXCEPT !.selectedIdea = idea, !.isEditing = FALSE,
                                  !.showForm = FALSE]
                ELSE page
  /\ last' = Idle
  /\ UNCHANGED <<stored, hasWindow, clock, watched, issued, quotaExceeded, pending,
                 pendingOther>>

\* The Edit button of the details of the selected idea.
startEdit ==
  /\ page.mounted /\ ~page.showForm
  /\ page.selectedIdea # NullRecord
  /\ page' = [page EXCEPT
                !.form = [title |-> page.selectedIdea.title,
                          status |-> page.selectedIdea.status,
                          linkedProblemIds |->
                            getLinkedProblemIdsForIdeaOn(getStorageData,
                                                         page.selectedIdea.id).ret],
                !.isEditing = TRUE,
                !.showForm = TRUE,
                !.toggles = NoToggles]
  /\ last' = Idle
  /\ UNCHANGED <<stored, hasWindow, clock, watched, issued, quotaExceeded, pending,
                 pendingOther>>

\* The Add Idea button.
startNew ==
  /\ page.mounted
  /\ page' = [page EXCEPT !.selectedIdea = NullRecord, !.form = EmptyForm,
                          !.isEditing = FALSE, !.showForm = TRUE, !.toggles = NoToggles]
  /\ last' = Idle
  /\ UNCHANGED <<stored, hasWindow, clock, watched, issued, quotaExceeded, pending,
                 pendingOther>>

\* Typing into the title input of the form.
setTitle(title) ==
  /\ page.mounted /\ page.showForm
  /\ page' = [page EXCEPT !.form.title = title]
  /\ last' = Idle
  /\ UNCHANGED <<stored, hasWindow, clock, watched, issued, quotaExceeded, pending,
                 pendingOther>>

\* Mutant: a toggle adds the problem whether it is selected or not.
toggleAdding(linkedProblemIds, problemId) == Append(linkedProblemIds, problemId)

\* prev.linkedProblemIds.includes(problemId) ? filter : [...prev, problemId]
toggle(linkedProblemIds, problemId) ==
  IF problemId \in Range(linkedProblemIds)
  THEN SelectSeq(linkedProblemIds, LAMBDA id : id # problemId)
  ELSE Append(linkedProblemIds, problemId)

\* A click on the checkbox of one of the listed problems.
toggleProblemLink(problemId) ==
  /\ page.mounted /\ page.showForm
  /\ problemId \in Range(page.allProblems)
  /\ page' = [page EXCEPT
                !.form.linkedProblemIds = toggle(@, problemId),
                !.toggles = [toggled |-> IF Len(@.toggled) < 2
                                         THEN Append(@.toggled, problemId)
                                         ELSE <<@.toggled[2], problemId>>,
                             before |-> IF Len(@.before) < 2
                                        THEN Append(@.before, page.form.linkedProblemIds)
                                        ELSE <<@.before[2], page.form.linkedProblemIds>>]]
  /\ last' = Idle
  /\ UNCHANGED <<stored, hasWindow, clock, watched, issued, quotaExceeded, pending,
                 pendingOther>>

\* The Cancel button of the form.
cancel ==
  /\ page.mounted /\ page.showForm
  /\ page' = [page EXCEPT !.showForm = FALSE]
  /\ last' = Idle
  /\ UNCHANGED <<stored, hasWindow, clock, watched, issued, quotaExceeded, pending,
                 pendingOther>>

\* The Save button of the form: updateIdea or createIdea, then
\* setProblemLinksForIdea with the selection of the form, then loadData.
handleSubmit ==
  /\ page.mounted /\ page.showForm
  /\ IF page.form.title = ""
     THEN UNCHANGED <<stored, last, issued, page>>
     ELSE IF setItemThrows
     THEN /\ Raise(IF page.isEditing /\ page.selectedIdea # NullRecord
                   THEN "updateIdea" ELSE "createIdea", <<>>)
          /\ page' = page
     ELSE LET editing == page.isEditing /\ page.selectedIdea # NullRecord
              first == IF editing
                       THEN updateIdeaOn(getStorageData, page.selectedIdea.id,
                                         page.form.title, page.form.status, now)
                       ELSE createIdeaOn(getStorageData, page.form.title,
                                         page.form.status, now)
              id == IF editing THEN page.selectedIdea.id ELSE first.ret
              text == textAfter(stored, first)
              second == setProblemLinksForIdeaOn(LoadFrom(text), id,
                                                 page.form.linkedProblemIds)
          IN /\ editing \/ getStorageData.counters.ideas < MaxId
             /\ getStorageData.counters.links + Len(page.form.linkedProblemIds)
                  <= MaxLinkIdLinks
             /\ stored' = textAfter(text, second)
             /\ Record("setProblemLinksForIdea", <<id, page.form.linkedProblemIds>>,
                       second.ret)
             /\ page' = loadData([page EXCEPT !.showForm = FALSE,
                                              !.selectedIdea = NullRecord], stored')
  /\ UNCHANGED <<hasWindow, clock, watched, quotaExceeded, pending, pendingOther>>

\* The Delete button of the details and the Cancel of its confirmation.
setConfirmDelete(value) ==
  /\ page.mounted /\ ~page.showForm
  /\ page.selectedIdea # NullRecord
  /\ page' = [page EXCEPT !.confirmDelete = value]
  /\ last' = Idle
  /\ UNCHANGED <<stored, hasWindow, clock, watched, issued, quotaExceeded, pending,
                 pendingOther>>

\* The Yes, Delete button of the confirmation.
handleDelete ==
  /\ page.mounted /\ ~page.showForm /\ page.confirmDelete
  /\ page.selectedIdea # NullRecord
  /\ ~setItemThrows
  /\ stored' = textAfter(stored, deleteIdeaOn(getStorageData, page.selectedIdea.id))
  /\ page' = loadData([page EXCEPT !.selectedIdea = NullRecord,
                                   !.confirmDelete = FALSE], stored')
  /\ last' = Idle
  /\ UNCHANGED <<hasWindow, clock, watched, issued, quotaExceeded, pending, pendingOther>>

\* ---------------------------------------------------------- specifications
\* A context with or without a window in which nothing was stored yet, the
\* quota not used up; the history variables record the calls of ops.
InitIn(window, ops) ==
  /\ stored = NoItem
  /\ hasWindow = window
  /\ clock = ClockStart
  /\ watched = ops
  /\ last = Idle
  /\ issued = [createProblem |-> <<>>, createIdea |-> <<>>, createNote |-> <<>>]
  /\ quotaExceeded = FALSE
  /\ pending = NoCall
  /\ pendingOther = NoCall
  /\ page = NoPage

\* A browser context: the pages are client components and call the store
\* from effects and event handlers.
InitWatching(ops) == InitIn(TRUE, ops)

\* Every operation of the store, on a document of all four collections.
StoreNext ==
  \/ createProblem(MaxId, "t1", "open")
  \/ \E id \in Ids : updateProblem(id, "t1", "open")
  \/ \E id \in Ids : deleteProblem(id)
  \/ getAllProblems
  \/ createIdea(MaxId, "t1", "new")
  \/ \E id \in Ids : updateIdea(id, "t1", "new")
  \/ \E id \in Ids : deleteIdea(id)
  \/ getAllIdeas
  \/ \E p \in Ids, i \in Ids : linkProblemToIdea(MaxLinkIdStore, p, i)
  \/ \E p \in Ids, i \in Ids : unlinkProblemFromIdea(p, i)
  \/ \E i \in Ids, ps \in Selections : setProblemLinksForIdea(MaxLinkIdStore, i, ps)
  \/ \E p \in Refs, i \in Refs : createNote(MaxNoteId, "c1", p, i)
  \/ \E id \in Ids, p \in Refs, i \in Refs : updateNote(id, "c1", p, i)
  \/ \E id \in Ids : deleteNote(id)
  \/ getAllNotes
  \/ exportAllData
  \/ \E d \in Backups : importAllData(d)
  \/ importExported
  \/ clearAllData

DataOps == {"importAllData", "importExported", "clearAllData"}

Init == InitWatching(DataOps)

Next == StoreNext

Spec == Init /\ [][Next]_vars

\* Creates and deletes only, the create calls recorded.
CreateOps == {"createProblem", "createIdea", "createNote"}

InitCreateDelete == InitWatching(CreateOps)

NextCreateDelete ==
  \/ \E t \in Titles : createProblem(MaxId, t, "open")
  \/ \E id \in Ids : deleteProblem(id)
  \/ \E t \in Titles : createIdea(MaxId, t, "new")
  \/ \E id \in Ids : deleteIdea(id)
  \/ \E c \in Contents : createNote(MaxId, c, Null, Null)
  \/ \E id \in Ids : deleteNote(id)

SpecCreateDelete == InitCreateDelete /\ [][NextCreateDelete]_vars

\* Records, notes and links built up and deleted, the deletes recorded.
DeleteOps == {"deleteProblem", "deleteIdea", "deleteNote"}

InitCascade == InitWatching(DeleteOps)

NextCascade ==
  \/ createProblem(MaxId, "t1", "open")
  \/ \E id \in Ids : deleteProblem(id)
  \/ createIdea(MaxId, "t1", "new")
  \/ \E id \in Ids : deleteIdea(id)
  \/ \E p \in Ids, i \in Ids : linkProblemToIdea(MaxLinkId, p, i)
  \/ \E p \in Refs, i \in Refs : createNote(MaxNoteId, "c1", p, i)
  \/ \E id \in Ids : deleteNote(id)

SpecCascade == InitCascade /\ [][NextCascade]_vars

\* The link operations, recorded, with arbitrary arguments.
LinkOps == {"linkProblemToIdea", "unlinkProblemFromIdea", "setProblemLinksForIdea"}

InitLinks == InitWatching(LinkOps)

NextLinks ==
  \/ createProblem(MaxIdLinks, "t1", "open")
  \/ \E id \in Ids : deleteProblem(id)
  \/ createIdea(MaxIdLinks, "t1", "new")
  \/ \E id \in Ids : deleteIdea(id)
  \/ \E p \in Ids, i \in Ids : linkProblemToIdea(MaxLinkIdLinks, p, i)
  \/ \E p \in Ids, i \in Ids : unlinkProblemFromIdea(p, i)
  \/ \E i \in Ids, ps \in Selections : setProblemLinksForIdea(MaxLinkIdLinks, i, ps)

SpecLinks == InitLinks /\ [][NextLinks]_vars

\* The listings, recorded, of records created at clock readings that may or
\* may not differ.
ListOps == {"getAllProblems", "getAllIdeas", "getAllNotes"}

InitListing == InitWatching(ListOps)

OrderIds == 1..MaxOrderId

NextListing ==
  \/ createProblem(MaxOrderId, "t1", "open")
  \/ \E id \in OrderIds : deleteProblem(id)
  \/ getAllProblems
  \/ createIdea(MaxId, "t1", "new")
  \/ \E id \in Ids : deleteIdea(id)
  \/ getAllIdeas
  \/ createNote(MaxId, "c1", Null, Null)
  \/ \E id \in Ids : deleteNote(id)
  \/ getAllNotes
  \/ Tick

SpecListing == InitListing /\ [][NextListing]_vars

\* Updates, deletes and lookups by id, recorded, with ids that are and are
\* not in the collections.
UpdateOps == {"updateProblem", "updateIdea", "updateNote"}
GetByIdOps == {"getProblemById", "getIdeaById", "getNoteById"}

InitMissing == InitWatching(UpdateOps \cup DeleteOps \cup GetByIdOps)

NextMissing ==
  \/ createProblem(MaxId, "t1", "open")
  \/ \E id \in Ids : updateProblem(id, "t2", "solved")
  \/ \E id \in Ids : deleteProblem(id)
  \/ \E id \in Ids : getProblemById(id)
  \/ createIdea(MaxId, "t1", "new")
  \/ \E id \in Ids : updateIdea(id, "t2", "parked")
  \/ \E id \in Ids : deleteIdea(id)
  \/ \E id \in Ids : getIdeaById(id)
  \/ createNote(MaxNoteId, "c1", Null, Null)
  \/ \E id \in Ids : updateNote(id, "c2", Null, Null)
  \/ \E id \in Ids : deleteNote(id)
  \/ \E id \in Ids : getNoteById(id)

SpecMissing == InitMissing /\ [][NextMissing]_vars

\* Records created, updated with other titles and statuses at the same or a
\* later clock reading, counted by status and deleted, next to one link and
\* one note; the updates and the counts recorded.
CountOps == {"getProblemsCountByStatus", "getIdeasCountByStatus"}

InitRecords == InitWatching(UpdateOps \cup CountOps)

\* What the edit forms submit: the fields as they were created, or all of
\* them changed.
ProblemForms == {<<"t1", "open">>, <<"t2", "solved">>}
IdeaForms == {<<"t1", "new">>, <<"t2", "parked">>}

NextRecords ==
  \/ createProblem(MaxId, "t1", "open")
  \/ \E id \in Ids, f \in ProblemForms : updateProblem(id, f[1], f[2])
  \/ \E id \in Ids : deleteProblem(id)
  \/ getProblemsCountByStatus
  \/ createIdea(MaxIdRecords, "t1", "new")
  \/ \E id \in Ids, f \in IdeaForms : updateIdea(id, f[1], f[2])
  \/ \E id \in Ids : deleteIdea(id)
  \/ getIdeasCountByStatus
  \/ linkProblemToIdea(MaxLinkIdStore, 1, 1)
  \/ createNote(MaxNoteId, "c1", 1, 1)
  \/ Tick

SpecRecords == InitRecords /\ [][NextRecords]_vars

\* A context without a window (the modules evaluated on the server): every
\* operation, recorded.  Each create is called at most MaxId times.
ReadOps ==
  ListOps \cup GetByIdOps \cup CountOps \cup
  {"getRecentProblems", "getRecentIdeas", "getIdeasForProblem", "getProblemsForIdea",
   "getLinkedProblemIdsForIdea", "getNotesForProblem", "getNotesForIdea", "exportAllData"}

AllOps == ReadOps \cup CreateOps \cup UpdateOps \cup DeleteOps \cup LinkOps \cup DataOps

InitNoWindow == InitIn(FALSE, AllOps)

Limits == 0..MaxId

NextNoWindow ==
  \/ Len(issued["createProblem"]) < MaxId /\ createProblem(MaxId, "t1", "open")
  \/ Len(issued["createIdea"]) < MaxId /\ createIdea(MaxId, "t1", "new")
  \/ Len(issued["createNote"]) < MaxId /\ createNote(MaxId, "c1", 1, Null)
  \/ \E id \in Ids : updateProblem(id, "t2", "solved")
  \/ \E id \in Ids : updateIdea(id, "t2", "parked")
  \/ \E id \in Ids : updateNote(id, "c2", Null, 1)
  \/ \E id \in Ids : deleteProblem(id)
  \/ \E id \in Ids : deleteIdea(id)
  \/ \E id \in Ids : deleteNote(id)
  \/ \E p \in Ids, i \in Ids : linkProblemToIdea(MaxLinkId, p, i)
  \/ \E p \in Ids, i \in Ids : unlinkProblemFromIdea(p, i)
  \/ \E i \in Ids, ps \in Selections : setProblemLinksForIdea(MaxLinkId, i, ps)
  \/ \E d \in Backups : importAllData(d)
  \/ importExported
  \/ clearAllData
  \/ getAllProblems
  \/ getAllIdeas
  \/ getAllNotes
  \/ \E id \in Ids : getProblemById(id)
  \/ \E id \in Ids : getIdeaById(id)
  \/ \E id \in Ids : getNoteById(id)
  \/ getProblemsCountByStatus
  \/ getIdeasCountByStatus
  \/ \E limit \in Limits : getRecentProblems(limit)
  \/ \E limit \in Limits : getRecentIdeas(limit)
  \/ \E p \in Ids : getIdeasForProblem(p)
  \/ \E i \in Ids : getProblemsForIdea(i)
  \/ \E i \in Ids : getLinkedProblemIdsForIdea(i)
  \/ \E p \in Ids : getNotesForProblem(p)
  \/ \E i \in Ids : getNotesForIdea(i)
  \/ exportAllData

SpecNoWindow == InitNoWindow /\ [][NextNoWindow]_vars

\* Imports and exports, recorded, over stores built by creates and links,
\* while the quota of localStorage is used up and freed.
ImportOps == {"importAllData", "exportAllData"}

InitImport == InitWatching(ImportOps)

NextImport ==
  \/ createProblem(MaxId, "t1", "open")
  \/ createIdea(MaxIdRecords, "t1", "new")
  \/ \E p \in Ids : linkProblemToIdea(MaxLinkId, p, 1)
  \/ \E d \in {BackupDangling, BackupPair, EmptyData} : importAllData(d)
  \/ exportAllData
  \/ clearAllData
  \/ QuotaChanges

SpecImport == InitImport /\ [][NextImport]_vars

\* The records of a link looked up from either side, recorded with the
\* deletes, over links that may repeat a pair.
LinkReadOps == {"getIdeasForProblem", "getProblemsForIdea", "deleteProblem", "deleteIdea"}

InitLinkReads == InitWatching(LinkReadOps)

NextLinkReads ==
  \/ createProblem(MaxId, "t1", "open")
  \/ \E id \in Ids : deleteProblem(id)
  \/ createIdea(MaxId, "t1", "new")
  \/ \E id \in Ids : deleteIdea(id)
  \/ \E p \in Ids, i \in Ids : linkProblemToIdea(MaxLinkId, p, i)
  \/ \E i \in Ids, ps \in Selections : setProblemLinksForIdea(MaxLinkId, i, ps)
  \/ \E p \in Ids : getIdeasForProblem(p)
  \/ \E i \in Ids : getProblemsForIdea(i)

SpecLinkReads == InitLinkReads /\ [][NextLinkReads]_vars

\* Selections set for one idea next to the links of another, a note and the
\* records; setProblemLinksForIdea recorded.
InitSelections == InitWatching({"setProblemLinksForIdea"})

NextSelections ==
  \/ createProblem(MaxId, "t1", "open")
  \/ createIdea(MaxId, "t1", "new")
  \/ createNote(MaxNoteId, "c1", 1, 1)
  \/ \E p \in Ids, i \in Ids : linkProblemToIdea(MaxLinkIdLinks, p, i)
  \/ \E i \in Ids, ps \in Selections : setProblemLinksForIdea(MaxLinkIdLinks, i, ps)

SpecSelections == InitSelections /\ [][NextSelections]_vars

\* The Ideas page over problems created and deleted while it is not shown;
\* the links are written by its handleSubmit only, which is recorded as the
\* setProblemLinksForIdea it ends with.
InitPage == InitWatching({"setProblemLinksForIdea"})

NextPage ==
  \/ ~page.mounted /\ createProblem(MaxId, "t1", "open")
  \/ ~page.mounted /\ \E id \in Ids : deleteProblem(id)
  \/ mount
  \/ unmount
  \/ \E id \in Ids : selectIdea(id)
  \/ startEdit
  \/ startNew
  \/ \E title \in {"", "t1"} : setTitle(title)
  \/ \E problemId \in Ids : toggleProblemLink(problemId)
  \/ cancel
  \/ handleSubmit
  \/ \E value \in BOOLEAN : setConfirmDelete(value)
  \/ handleDelete

SpecPage == InitPage /\ [][NextPage]_vars

\* Every read, recorded, over stores whose listing order differs from their
\* storage order.
InitReads == InitWatching(ReadOps)

NextReads ==
  \/ createProblem(MaxId, "t1", "open")
  \/ createIdea(MaxIdRecords, "t1", "new")
  \/ \E p \in Ids : linkProblemToIdea(MaxLinkIdStore, p, 1)
  \/ createNote(MaxNoteId, "c1", 1, 1)
  \/ Tick
  \/ getAllProblems
  \/ getAllIdeas
  \/ getAllNotes
  \/ \E id \in Ids : getProblemById(id)
  \/ \E id \in Ids : getIdeaById(id)
  \/ \E id \in Ids : getNoteById(id)
  \/ getProblemsCountByStatus
  \/ getIdeasCountByStatus
  \/ \E limit \in Limits : getRecentProblems(limit)
  \/ \E limit \in Limits : getRecentIdeas(limit)
  \/ getRecentProblemsDefault
  \/ getRecentIdeasDefault
  \/ \E p \in Ids : getIdeasForProblem(p)
  \/ \E i \in Ids : getProblemsForIdea(i)
  \/ \E i \in Ids : getLinkedProblemIdsForIdea(i)
  \/ \E p \in Ids : getNotesForProblem(p)
  \/ \E i \in Ids : getNotesForIdea(i)
  \/ exportAllData

SpecReads == InitReads /\ [][NextReads]_vars

\* Callers that pass the link and note operations the ids of records that
\* are stored when they call, as the pages do, which offer the stored
\* problems and ideas to choose from; the deletes recorded.
storedProblemIds ==
  {getStorageData.problems[k].id : k \in 1..Len(getStorageData.problems)}

storedIdeaIds ==
  {getStorageData.ideas[k].id : k \in 1..Len(getStorageData.ideas)}

storedSelections == {ps \in Selections : Range(ps) \subseteq storedProblemIds}

InitCallers == InitWatching(DeleteOps)

NextCallers ==
  \/ createProblem(MaxId, "t1", "open")
  \/ \E id \in Ids : deleteProblem(id)
  \/ createIdea(MaxId, "t1", "new")
  \/ \E id \in Ids : deleteIdea(id)
  \/ \E p \in storedProblemIds, i \in storedIdeaIds :
       linkProblemToIdea(MaxLinkId, p, i)
  \/ \E p \in Ids, i \in Ids : unlinkProblemFromIdea(p, i)
  \/ \E i \in storedIdeaIds, ps \in storedSelections :
       setProblemLinksForIdea(MaxLinkId, i, ps)
  \/ \E p \in storedProblemIds \cup {Null}, i \in storedIdeaIds \cup {Null} :
       createNote(MaxNoteId, "c1", p, i)
  \/ \E id \in Ids, p \in storedProblemIds \cup {Null}, i \in storedIdeaIds \cup {Null} :
       updateNote(id, "c2", p, i)
  \/ \E id \in Ids : deleteNote(id)
  \/ clearAllData

SpecCallers == InitCallers /\ [][NextCallers]_vars

\* Two notes next to problems, an idea and a link; the creates and the
\* deletes recorded.
InitNotes == InitWatching(CreateOps \cup DeleteOps)

NextNotes ==
  \/ createProblem(MaxId, "t1", "open")
  \/ \E id \in Ids : deleteProblem(id)
  \/ createIdea(MaxIdRecords, "t1", "new")
  \/ deleteIdea(1)
  \/ \E p \in Ids : linkProblemToIdea(MaxLinkIdStore, p, 1)
  \/ \E p \in Refs, i \in {Null, 1} : createNote(MaxId, "c1", p, i)
  \/ \E id \in Ids : deleteNote(id)

SpecNotes == InitNotes /\ [][NextNotes]_vars

\* More records than the default limit, created in two different
\* milliseconds, and the two recent listings recorded.
RecentOps == {"getRecentProblems", "getRecentIdeas"}

InitRecent == InitWatching(RecentOps)

RecentLimits == 0..MaxRecentId

NextRecent ==
  \/ createProblem(MaxRecentId, "t1", "open")
  \/ \E id \in Ids : deleteProblem(id)
  \/ createIdea(MaxRecentId, "t1", "new")
  \/ \E limit \in RecentLimits : getRecentProblems(limit)
  \/ \E limit \in RecentLimits : getRecentIdeas(limit)
  \/ getRecentProblemsDefault
  \/ getRecentIdeasDefault
  \/ Tick

SpecRecent == InitRecent /\ [][NextRecent]_vars

\* Two contexts on one localStorage (two tabs of the application), each
\* running its handlers one localStorage access at a time; the creates
\* recorded.
InitTabs == InitWatching(CreateOps)

TabSelections == {<<1, 2>>}

NextTabs ==
  \/ /\ getStorageData.counters.problems < MaxIdRecords
     /\ \/ Load("createProblem", <<"t1", "open">>,
               createProblemOn(getStorageData, "t1", "open", now))
        \/ LoadOther("createProblem", <<"t1", "open">>,
                    createProblemOn(getStorageData, "t1", "open", now))
  \/ /\ getStorageData.counters.ideas < MaxIdRecords
     /\ \/ Load("createIdea", <<"t1", "new">>,
               createIdeaOn(getStorageData, "t1", "new", now))
        \/ LoadOther("createIdea", <<"t1", "new">>,
                    createIdeaOn(getStorageData, "t1", "new", now))
  \/ /\ getStorageData.counters.notes < MaxNoteId
     /\ \/ Load("createNote", <<"c1", 1, Null>>,
               createNoteOn(getStorageData, "c1", 1, Null, now))
        \/ LoadOther("createNote", <<"c1", 1, Null>>,
                    createNoteOn(getStorageData, "c1", 1, Null, now))
  \/ Load("deleteProblem", <<1>>, deleteProblemOn(getStorageData, 1))
  \/ LoadOther("deleteProblem", <<1>>, deleteProblemOn(getStorageData, 1))
  \/ \E ps \in TabSelections :
       /\ getStorageData.counters.links + Len(ps) <= MaxLinkId
       /\ \/ Load("setProblemLinksForIdea", <<1, ps>>,
                 setProblemLinksForIdeaOn(getStorageData, 1, ps))
          \/ LoadOther("setProblemLinksForIdea", <<1, ps>>,
                      setProblemLinksForIdeaOn(getStorageData, 1, ps))
  \/ Return
  \/ ReturnOther

SpecTabs == InitTabs /\ [][NextTabs]_vars

\* One context running its handlers one localStorage access at a time: a
\* handler loads, then saves and returns, before the next one starts.
\* importAllData and clearAllData do not load and are one access each.
InitSteps == InitWatching(DeleteOps \cup {"importAllData"})

NextSteps ==
  \/ /\ getStorageData.counters.problems < MaxId
     /\ Load("createProblem", <<"t1", "open">>,
             createProblemOn(getStorageData, "t1", "open", now))
  \/ \E id \in Ids : Load("deleteProblem", <<id>>, deleteProblemOn(getStorageData, id))
  \/ /\ getStorageData.counters.ideas < MaxId
     /\ Load("createIdea", <<"t1", "new">>,
             createIdeaOn(getStorageData, "t1", "new", now))
  \/ \E id \in Ids : Load("deleteIdea", <<id>>, deleteIdeaOn(getStorageData, id))
  \/ \E p \in Ids, i \in Ids :
       /\ getStorageData.counters.links < MaxLinkIdStore
       /\ Load("linkProblemToIdea", <<p, i>>, linkProblemToIdeaOn(getStorageData, p, i))
  \/ \E p \in Refs, i \in Refs :
       /\ getStorageData.counters.notes < MaxNoteId
       /\ Load("createNote", <<"c1", p, i>>,
               createNoteOn(getStorageData, "c1", p, i, now))
  \/ Load("getAllProblems", <<>>, getAllProblemsOn(getStorageData))
  \/ Return
  \/ \E d \in Backups : pending.op = "none" /\ importAllData(d)
  \/ pending.op = "none" /\ clearAllData

SpecSteps == InitSteps /\ [][NextSteps]_vars

\* ------------------------------------------------------------ properties
\* The document the next call will load, and the one the recorded call loaded.
Doc == LoadFrom(stored)
Pre == LoadFrom(last.pre)

idsOf(s) == {s[k].id : k \in 1..Len(s)}

distinctIds(s) == \A j, k \in 1..Len(s) : j # k => s[j].id # s[k].id

strictlyIncreasing(s) == \A j, k \in 1..Len(s) : j < k => s[j] < s[k]

\* C1: over any sequence of create and delete calls, the ids the creates of
\* one collection return are strictly increasing (so none is returned twice,
\* deleted or not), and no two records of a collection share an id.
C1_IdsIncreasingNeverReused ==
  /\ \A op \in CreateOps : strictlyIncreasing(issued[op])
  /\ distinctIds(Doc.problems) /\ distinctIds(Doc.ideas) /\ distinctIds(Doc.notes)

\* A create that follows the deletion of the only record of its collection.
C1_Witness ==
  /\ last.op = "createProblem"
  /\ Pre.problems = <<>>
  /\ issued["createProblem"] = <<1, 2>>
  /\ idsOf(Doc.problems) = {2}

\* C2: a successful deleteProblem(id) removes the problem and every link with
\* problem_id = id, sets problem_id to null on every note that had it, deletes
\* no note and leaves the ideas alone.
C2_DeleteProblemCascade ==
  (last.op = "deleteProblem" /\ last.ret = TRUE) =>
    LET id == last.args[1] IN
    /\ id \in idsOf(Pre.problems)
    /\ id \notin idsOf(Doc.problems)
    /\ \A k \in 1..Len(Doc.links) : Doc.links[k].problem_id # id
    /\ Len(Doc.notes) = Len(Pre.notes)
    /\ \A k \in 1..Len(Pre.notes) :
         Pre.notes[k].problem_id = id => Doc.notes[k].problem_id = Null
    /\ Doc.ideas = Pre.ideas

\* The deleted problem was linked to two ideas and referenced by a note.
C2_Witness ==
  /\ last.op = "deleteProblem" /\ last.ret = TRUE
  /\ Len(Pre.ideas) = 2
  /\ \A i \in idsOf(Pre.ideas) : hasLink(Pre.links, last.args[1], i)
  /\ \E k \in 1..Len(Pre.notes) : Pre.notes[k].problem_id = last.args[1]

\* C3: a successful deleteIdea(id) removes the idea and every link with
\* idea_id = id, sets idea_id to null on every note that had it, deletes no
\* note and leaves the problems alone.
C3_DeleteIdeaCascade ==
  (last.op = "deleteIdea" /\ last.ret = TRUE) =>
    LET id == last.args[1] IN
    /\ id \in idsOf(Pre.ideas)
    /\ id \notin idsOf(Doc.ideas)
    /\ \A k \in 1..Len(Doc.links) : Doc.links[k].idea_id # id
    /\ Len(Doc.notes) = Len(Pre.notes)
    /\ \A k \in 1..Len(Pre.notes) :
         Pre.notes[k].idea_id = id => Doc.notes[k].idea_id = Null
    /\ Doc.problems = Pre.problems

\* The deleted idea was linked to two problems and referenced by a note.
C3_Witness ==
  /\ last.op = "deleteIdea" /\ last.ret = TRUE
  /\ Len(Pre.problems) = 2
  /\ \A p \in idsOf(Pre.problems) : hasLink(Pre.links, p, last.args[1])
  /\ \E k \in 1..Len(Pre.notes) : Pre.notes[k].idea_id = last.args[1]

\* The links of one idea, in storage order, and the links of one pair.
linksOfIdea(links, idea_id) == SelectSeq(links, LAMBDA l : l.idea_id = idea_id)

linksOfPair(links, problem_id, idea_id) ==
  SelectSeq(links, LAMBDA l : l.problem_id = problem_id /\ l.idea_id = idea_id)

\* C4: whatever the arguments of the link operations, the links collection
\* never holds two records with the same (problem_id, idea_id) pair.
C4_NoDuplicateLinkPairs ==
  \A j, k \in 1..Len(Doc.links) :
    j # k => ~(/\ Doc.links[j].problem_id = Doc.links[k].problem_id
               /\ Doc.links[j].idea_id = Doc.links[k].idea_id)

\* C5: linkProblemToIdea(p, i) on an existing pair returns false and changes
\* nothing, counters included; on a new pair it returns true and appends one
\* link (p, i) with the id it minted; and after two calls in a row with the
\* same pair exactly one link holds that pair.
C5_LinkTwiceLeavesOneLink ==
  (last.op = "linkProblemToIdea") =>
    LET p == last.args[1]
        i == last.args[2]
    IN /\ hasLink(Pre.links, p, i) => (last.ret = FALSE /\ Doc = Pre)
       /\ ~hasLink(Pre.links, p, i) =>
            /\ last.ret = TRUE
            /\ Doc = [Pre EXCEPT
                        !.counters.links = @ + 1,
                        !.links = Append(@, [id |-> Pre.counters.links + 1,
                                             problem_id |-> p, idea_id |-> i])]
       /\ last.again => Len(linksOfPair(Doc.links, p, i)) = 1

\* C6: setProblemLinksForIdea(i, ps) leaves idea i with exactly one link per
\* element of ps, in order, each with an id minted by this call; a second call
\* in a row with the same ps leaves as many links of idea i, to the same
\* problems, and none of the ids the first call gave them.
C6_SetLinksFullReplace ==
  (last.op = "setProblemLinksForIdea") =>
    LET i == last.args[1]
        ps == last.args[2]
        before == linksOfIdea(Pre.links, i)
        after == linksOfIdea(Doc.links, i)
    IN /\ Len(after) = Len(ps)
       /\ \A k \in 1..Len(ps) :
            /\ after[k].problem_id = ps[k]
            /\ after[k].id = Pre.counters.links + k
       /\ Doc.counters.links = Pre.counters.links + Len(ps)
       /\ last.again =>
            /\ Len(after) = Len(before)
            /\ {after[k].problem_id : k \in 1..Len(after)}
                 = {before[k].problem_id : k \in 1..Len(before)}
            /\ idsOf(after) \cap idsOf(before) = {}

\* The second of two calls in a row that give one idea the same two problems.
C6_Witness ==
  /\ last.op = "setProblemLinksForIdea" /\ last.again
  /\ last.args[2] = <<1, 2>>
  /\ Len(linksOfIdea(Pre.links, last.args[1])) = 2
  /\ Len(linksOfIdea(Doc.links, last.args[1])) = 2

\* C7: importAllData(exportAllData()) returns true and leaves the stored text,
\* hence all four collections and all four counters, as the export found it.
C7_ExportImportRoundTrip ==
  (last.op = "importExported") =>
    /\ last.ret = TRUE
    /\ stored = TextAfterLoad(last.pre)
    /\ Doc.problems = Pre.problems /\ Doc.ideas = Pre.ideas
    /\ Doc.notes = Pre.notes /\ Doc.links = Pre.links
    /\ Doc.counters = Pre.counters

\* A round trip of a document that holds a record of each kind and a counter
\* ahead of its collection.
C7_Witness ==
  /\ last.op = "importExported"
  /\ Len(Pre.problems) = 1 /\ Pre.counters.problems = 2
  /\ Len(Pre.ideas) >= 1 /\ Len(Pre.notes) = 1 /\ Len(Pre.links) = 1

\* C8: after clearAllData the four collections are empty, the four counters
\* are 0, and createProblem, createIdea and createNote each return 1.
C8_ClearResets ==
  (last.op = "clearAllData") =>
    /\ Doc.problems = <<>> /\ Doc.ideas = <<>> /\ Doc.notes = <<>> /\ Doc.links = <<>>
    /\ \A c \in CounterNames : Doc.counters[c] = 0
    /\ createProblemOn(getStorageData, "t1", "open", now).ret = 1
    /\ createIdeaOn(getStorageData, "t1", "new", now).ret = 1
    /\ createNoteOn(getStorageData, "c1", Null, Null, now).ret = 1

\* A clear of a document whose counters had all advanced.
C8_Witness ==
  /\ last.op = "clearAllData"
  /\ \A c \in CounterNames : Pre.counters[c] >= 1
  /\ Len(Pre.problems) = 2 /\ Len(Pre.links) = 1 /\ Len(Pre.notes) = 1

\* The collection a listing reads.
listed(op) ==
  IF op = "getAllProblems" THEN Doc.problems
  ELSE IF op = "getAllIdeas" THEN Doc.ideas
  ELSE Doc.notes

\* Where the record with this id stands in a list.
position(s, id) == CHOOSE k \in 1..Len(s) : s[k].id = id

\* C9: getAllProblems, getAllIdeas and getAllNotes return every live record,
\* sorted by created_at descending, and list three records created one after
\* the other as A, B, C in the order C, B, A, whatever the clock read.
C9_ListingNewestFirst ==
  (last.op \in ListOps) =>
    LET r == last.ret IN
    /\ Len(r) = Len(listed(last.op))
    /\ Range(r) = Range(listed(last.op))
    /\ \A j, k \in 1..Len(r) :
         j < k => getTime(r[j].created_at) >= getTime(r[k].created_at)
    /\ \A a \in idsOf(r) :
         ({a + 1, a + 2} \subseteq idsOf(r)) =>
           /\ position(r, a + 2) < position(r, a + 1)
           /\ position(r, a + 1) < position(r, a)

\* C10 as claimed: no step of any operation lowers a counter.
C10_CountersNeverDecrease ==
  [][\A c \in CounterNames :
       LoadFrom(stored').counters[c] >= LoadFrom(stored).counters[c]]_vars

\* C10 as amended: no step lowers a counter, except a clearAllData, which
\* zeroes them, and an importAllData, which sets them to the imported ones.
C10_CountersDecreaseOnlyOnReplace ==
  [][\/ last'.op \in {"clearAllData", "importAllData"}
     \/ \A c \in CounterNames :
          LoadFrom(stored').counters[c] >= LoadFrom(stored).counters[c]]_vars

\* Deletes have emptied the problems and the links, and their counters stand.
C10_Witness ==
  /\ last.op = "idle"
  /\ Doc.problems = <<>> /\ Doc.counters.problems = 2
  /\ Doc.links = <<>> /\ Doc.counters.links = 1

\* C11: a successful deleteProblem or deleteIdea hands the document to
\* localStorage once: nothing is written between its load and its return, and
\* what its return leaves stored has the record removed together with every
\* link that touched it and every note reference to it.
C11_DeleteIsOneWrite ==
  /\ (pending.op \in {"deleteProblem", "deleteIdea"} /\ pending.r.ret = TRUE) =>
       /\ stored = pending.pre
       /\ pending.args[1] \in idsOf(IF pending.op = "deleteProblem"
                                    THEN Doc.problems ELSE Doc.ideas)
  /\ (pending.op = "none" /\ last.op = "deleteProblem" /\ last.ret = TRUE) =>
       /\ last.args[1] \notin idsOf(Doc.problems)
       /\ \A k \in 1..Len(Doc.links) : Doc.links[k].problem_id # last.args[1]
       /\ \A k \in 1..Len(Doc.notes) : Doc.notes[k].problem_id # last.args[1]
       /\ stored = JsonStringify(deleteProblemOn(Pre, last.args[1]).data)
  /\ (pending.op = "none" /\ last.op = "deleteIdea" /\ last.ret = TRUE) =>
       /\ last.args[1] \notin idsOf(Doc.ideas)
       /\ \A k \in 1..Len(Doc.links) : Doc.links[k].idea_id # last.args[1]
       /\ \A k \in 1..Len(Doc.notes) : Doc.notes[k].idea_id # last.args[1]
       /\ stored = JsonStringify(deleteIdeaOn(Pre, last.args[1]).data)

\* A delete has returned whose problem was linked and referenced by a note.
C11_Witness ==
  /\ pending.op = "none" /\ last.op = "deleteProblem" /\ last.ret = TRUE
  /\ \E k \in 1..Len(Pre.links) : Pre.links[k].problem_id = last.args[1]
  /\ \E k \in 1..Len(Pre.notes) : Pre.notes[k].problem_id = last.args[1]

\* C12: with an id that is not in the collection, the three updates and the
\* three deletes return false and leave all collections and counters as they
\* were, the three lookups by id return null, and none of them throws.
C12_MissingIdIsReported ==
  LET missing == CASE last.op \in {"updateProblem", "deleteProblem", "getProblemById"} ->
                        last.args[1] \notin idsOf(Pre.problems)
                   [] last.op \in {"updateIdea", "deleteIdea", "getIdeaById"} ->
                        last.args[1] \notin idsOf(Pre.ideas)
                   [] last.op \in {"updateNote", "deleteNote", "getNoteById"} ->
                        last.args[1] \notin idsOf(Pre.notes)
                   [] OTHER -> FALSE
  IN missing =>
       /\ ~last.raised
       /\ last.op \in UpdateOps \cup DeleteOps => (last.ret = FALSE /\ Doc = Pre)
       /\ last.op \in GetByIdOps => last.ret = NullRecord

\* An update of a note id that is not stored while another note is.
C12_Witness ==
  /\ last.op = "updateNote" /\ last.args[1] = 2
  /\ idsOf(Pre.notes) = {1}
  /\ last.ret = FALSE
  /\ Len(Doc.problems) = 1 /\ Len(Doc.ideas) = 2

\* C13: a successful updateProblem or updateIdea leaves the document it loaded
\* with one change: the record with that id, where it stood, with the title
\* and status of the call and updated_at at the clock reading, its id and
\* created_at kept; and no step changes the created_at of a record that is
\* there before and after it.
C13_UpdateKeepsIdentity ==
  [][LET before == LoadFrom(stored)
         after == LoadFrom(stored')
         args == last'.args
     IN /\ (clock' = clock /\ last'.op = "updateProblem" /\ last'.ret = TRUE) =>
             LET index == findIndex(before.problems, args[1])
             IN /\ index # NotFound
                /\ after = [before EXCEPT !.problems[index] =
                              [id |-> args[1], title |-> args[2], status |-> args[3],
                               created_at |-> before.problems[index].created_at,
                               updated_at |-> toISOString(clock)]]
        /\ (clock' = clock /\ last'.op = "updateIdea" /\ last'.ret = TRUE) =>
             LET index == findIndex(before.ideas, args[1])
             IN /\ index # NotFound
                /\ after = [before EXCEPT !.ideas[index] =
                              [id |-> args[1], title |-> args[2], status |-> args[3],
                               created_at |-> before.ideas[index].created_at,
                               updated_at |-> toISOString(clock)]]
        /\ \A j \in 1..Len(before.problems), k \in 1..Len(after.problems) :
             before.problems[j].id = after.problems[k].id =>
               before.problems[j].created_at = after.problems[k].created_at
        /\ \A j \in 1..Len(before.ideas), k \in 1..Len(after.ideas) :
             before.ideas[j].id = after.ideas[k].id =>
               before.ideas[j].created_at = after.ideas[k].created_at]_vars

\* The second of two problems, created at the first clock reading, has been
\* given another title and status at the next one, with a link and a note
\* stored.
C13_Witness ==
  /\ last.op = "updateProblem" /\ last.ret = TRUE /\ last.args = <<2, "t2", "solved">>
  /\ Len(Pre.problems) = 2 /\ Len(Pre.links) = 1 /\ Len(Pre.notes) = 1
  /\ Pre.problems[2] = [id |-> 2, title |-> "t1", status |-> "open",
                        created_at |-> toISOString(ClockStart),
                        updated_at |-> toISOString(ClockStart)]
  /\ Doc.problems[2].updated_at = toISOString(ClockStart + 1)
  /\ Doc.problems[2].created_at = toISOString(ClockStart)

\* The sum of the counts of a mapping from status to count.
RECURSIVE sumOver(_, _)
sumOver(counts, keys) ==
  IF keys = {} THEN 0
  ELSE LET k == CHOOSE x \in keys : TRUE
       IN counts[k] + sumOver(counts, keys \ {k})

statusesOf(s) == {s[k].status : k \in 1..Len(s)}

countsAreOf(counts, s) ==
  /\ DOMAIN counts = statusesOf(s)
  /\ \A status \in DOMAIN counts :
       counts[status] = Cardinality({k \in 1..Len(s) : s[k].status = status})
  /\ sumOver(counts, DOMAIN counts) = Len(s)

\* C15: getProblemsCountByStatus and getIdeasCountByStatus return a mapping
\* whose keys are the statuses at least one stored record has, each with the
\* number of stored records that have it; the counts add up to the size of
\* the collection.
C15_CountsByStatus ==
  /\ (last.op = "getProblemsCountByStatus") => countsAreOf(last.ret, Doc.problems)
  /\ (last.op = "getIdeasCountByStatus") => countsAreOf(last.ret, Doc.ideas)

\* A count of two problems with one status, none with the other.
C15_Witness ==
  /\ last.op = "getProblemsCountByStatus"
  /\ Len(Doc.problems) = 2 /\ statusesOf(Doc.problems) = {"solved"}
  /\ last.ret["solved"] = 2

\* C14: every link that linkProblemToIdea or setProblemLinksForIdea adds to
\* the store has the id of a stored problem as problem_id and the id of a
\* stored idea as idea_id.
C14_AddedLinksReferenceRecords ==
  (last.op \in {"linkProblemToIdea", "setProblemLinksForIdea"}) =>
    \A k \in 1..Len(Doc.links) :
      Doc.links[k].id \notin idsOf(Pre.links) =>
        /\ Doc.links[k].problem_id \in idsOf(Doc.problems)
        /\ Doc.links[k].idea_id \in idsOf(Doc.ideas)

\* C16: without a window every read returns what it returns on the empty
\* document (no record, null, no count, the empty document itself), nothing
\* is ever stored under the key, and no operation throws.
C16_NoWindowDegrades ==
  ~hasWindow =>
    /\ stored = NoItem
    /\ ~last.raised
    /\ last.op \in GetByIdOps => last.ret = NullRecord
    /\ last.op \in CountOps => DOMAIN last.ret = {}
    /\ last.op = "exportAllData" => last.ret = EmptyData
    /\ last.op \in ReadOps \ (GetByIdOps \cup CountOps \cup {"exportAllData"}) =>
         last.ret = <<>>

\* A listing after two creates in a context without a window.
C16_Witness ==
  /\ ~hasWindow
  /\ last.op = "getAllProblems"
  /\ issued["createProblem"] = <<1, 1>>
  /\ stored = NoItem

\* C17: with a window, importAllData(d) returns false exactly when setItem
\* threw and true otherwise, never throws itself, and when it returned true
\* the next exportAllData() returns d, whatever was stored and whether or
\* not the links of d reference records of d.
C17_ImportReplacesDocument ==
  (hasWindow /\ last.op = "importAllData") =>
    /\ ~last.raised
    /\ last.ret = ~quotaExceeded
    /\ last.ret = TRUE => exportAllDataOn(getStorageData).ret = last.args[1]

\* The import of a document with a dangling link over a store of two problems,
\* an idea and a link.
C17_Witness ==
  /\ last.op = "importAllData" /\ last.ret = TRUE
  /\ last.args[1] = BackupDangling
  /\ Len(Pre.problems) = 2 /\ Len(Pre.ideas) = 1 /\ Len(Pre.links) = 1
  /\ Doc = BackupDangling

\* C18 as claimed: the first operation of any kind, when nothing is stored,
\* stores the empty document (four empty collections, four counters at 0);
\* and every handler loads the document that is stored when it loads.
C18_FirstOperationStoresEmpty ==
  [][/\ stored = NoItem => stored' = JsonStringify(EmptyData)
     /\ (pending'.op # "none" /\ pending' # pending) =>
          pending'.loaded = JsonParse(stored')]_vars

\* C18 as amended: with a window, the first operation when nothing is stored
\* stores the empty document, except importAllData, which stores the
\* document it was given; and every handler loads the document that is
\* stored when it loads.
C18_FirstOperationStoresEmptyOrImport ==
  [][hasWindow =>
       /\ stored = NoItem =>
            \/ stored' = JsonStringify(EmptyData)
            \/ /\ last'.op = "importAllData"
               /\ stored' = JsonStringify(last'.args[1])
       /\ (pending'.op # "none" /\ pending' # pending) =>
            pending'.loaded = JsonParse(stored')]_vars

\* A listing was the first operation: it has stored the empty document and
\* has yet to return.
C18_Witness ==
  /\ pending.op = "getAllProblems"
  /\ pending.pre = NoItem
  /\ stored = JsonStringify(EmptyData)
  /\ pending.loaded = EmptyData

\* C19: unlinkProblemFromIdea(p, i) returns true and removes every link of
\* the pair (p, i), the other links staying as they are, when the pair has a
\* link; it returns false and changes nothing when it has none; the links
\* counter stays either way.
C19_UnlinkRemovesPair ==
  (last.op = "unlinkProblemFromIdea") =>
    LET p == last.args[1]
        i == last.args[2]
        others == SelectSeq(Pre.links, LAMBDA l : ~(l.problem_id = p /\ l.idea_id = i))
    IN /\ hasLink(Pre.links, p, i) =>
            /\ last.ret = TRUE
            /\ ~hasLink(Doc.links, p, i)
            /\ Doc = [Pre EXCEPT !.links = others]
       /\ ~hasLink(Pre.links, p, i) => (last.ret = FALSE /\ Doc = Pre)
       /\ Doc.counters.links = Pre.counters.links

\* An unlink of a pair that two links held, a link of another pair staying.
C19_Witness ==
  /\ last.op = "unlinkProblemFromIdea" /\ last.ret = TRUE
  /\ Len(linksOfPair(Pre.links, last.args[1], last.args[2])) = 2
  /\ Len(Doc.links) = 1

\* The stored records of a collection that a set of pairs links to an id.
linkedTo(s, links, id, problemSide) ==
  {s[k] : k \in {j \in 1..Len(s) :
                   IF problemSide THEN hasLink(links, id, s[j].id)
                   ELSE hasLink(links, s[j].id, id)}}

\* C20: getIdeasForProblem(p) returns the stored ideas that a link joins to
\* p, none of them twice, and getProblemsForIdea(i) the stored problems that
\* a link joins to i; once a linked problem is deleted getIdeasForProblem of
\* it returns nothing while getAllIdeas still lists every idea (and the
\* same with problem and idea exchanged).
C20_LinkedRecordsOnce ==
  /\ (last.op = "getIdeasForProblem") =>
       /\ distinctIds(last.ret)
       /\ Range(last.ret) = linkedTo(Doc.ideas, Doc.links, last.args[1], TRUE)
  /\ (last.op = "getProblemsForIdea") =>
       /\ distinctIds(last.ret)
       /\ Range(last.ret) = linkedTo(Doc.problems, Doc.links, last.args[1], FALSE)
  /\ (last.op = "deleteProblem" /\ last.ret = TRUE) =>
       /\ getIdeasForProblemOn(getStorageData, last.args[1]).ret = <<>>
       /\ Range(getAllIdeasOn(getStorageData).ret) = Range(Pre.ideas)
  /\ (last.op = "deleteIdea" /\ last.ret = TRUE) =>
       /\ getProblemsForIdeaOn(getStorageData, last.args[1]).ret = <<>>
       /\ Range(getAllProblemsOn(getStorageData).ret) = Range(Pre.problems)

\* A problem linked to a stored idea has been deleted.
C20_Witness ==
  /\ last.op = "deleteProblem" /\ last.ret = TRUE
  /\ \E k \in 1..Len(Pre.ideas) : hasLink(Pre.links, last.args[1], Pre.ideas[k].id)
  /\ getIdeasForProblemOn(Pre, last.args[1]).ret # <<>>
  /\ Doc.ideas # <<>>

\* The records of before that after no longer holds.
droppedRecords(before, after) ==
  \/ Range(before.problems) \ Range(after.problems) # {}
  \/ Range(before.ideas) \ Range(after.ideas) # {}
  \/ Range(before.notes) \ Range(after.notes) # {}

\* C21: with two contexts a stored record disappears at the save of a create
\* of another record only when the stored text has changed between the load
\* and the save of that create, that is, when the other context has saved in
\* between and this save writes the document loaded before.
C21_LostOnlyToStaleSave ==
  [][/\ (pending.op \in CreateOps /\ pending'.op = "none"
         /\ droppedRecords(LoadFrom(stored), LoadFrom(stored'))) =>
          stored # TextAfterLoad(pending.pre)
     /\ (pendingOther.op \in CreateOps /\ pendingOther'.op = "none"
         /\ droppedRecords(LoadFrom(stored), LoadFrom(stored'))) =>
          stored # TextAfterLoad(pendingOther.pre)]_vars

\* createProblem has returned id 1 to its caller and problem 1 was stored;
\* then a createIdea that had loaded before has saved, and neither the
\* problem nor the advance of its counter is stored any more.
C21_Witness ==
  /\ issued["createProblem"] = <<1>>
  /\ last.op = "createIdea" /\ last.ret = 1 /\ ~last.raised
  /\ idsOf(Pre.problems) = {1}
  /\ Doc.problems = <<>> /\ Doc.counters.problems = 0
  /\ idsOf(Doc.ideas) = {1}

\* C29: with two contexts interleaving their loads and saves, every stored
\* document has pairwise distinct ids within each collection and no id above
\* the counter of its collection.
C29_StoredIdsDistinctAndCounted ==
  \A c \in CounterNames :
    /\ distinctIds(Doc[c])
    /\ \A k \in 1..Len(Doc[c]) : Doc[c][k].id <= Doc.counters[c]

\* Both contexts have created a problem from the same loaded document: id 1
\* was returned twice and one problem 1 is stored, next to two links.
C29_Witness ==
  /\ issued["createProblem"] = <<1, 1>>
  /\ idsOf(Doc.problems) = {1} /\ Len(Doc.problems) = 1
  /\ Doc.counters.problems = 1
  /\ Len(Doc.links) = 2

\* The limit a recorded recent listing ran with: 5 when it was left out.
limitOf(args) == IF args = <<>> THEN 5 ELSE args[1]

\* ret is the first min(limit, n) elements of all, in the same order.
firstOf(ret, all, limit) ==
  LET m == IF limit < Len(all) THEN limit ELSE Len(all)
  IN /\ Len(ret) = m
     /\ \A k \in 1..m : ret[k] = all[k]

\* C22: getRecentProblems(limit) and getRecentIdeas(limit) with limit >= 0
\* return the first min(limit, n) elements of getAllProblems() and
\* getAllIdeas(), in the same order, n being the size of the collection; a
\* call without a limit runs with limit 5.
C22_RecentIsPrefixOfAll ==
  /\ (last.op = "getRecentProblems" /\ ~last.raised) =>
       /\ Len(getAllProblemsOn(Doc).ret) = Len(Doc.problems)
       /\ firstOf(last.ret, getAllProblemsOn(Doc).ret, limitOf(last.args))
  /\ (last.op = "getRecentIdeas" /\ ~last.raised) =>
       /\ Len(getAllIdeasOn(Doc).ret) = Len(Doc.ideas)
       /\ firstOf(last.ret, getAllIdeasOn(Doc).ret, limitOf(last.args))

\* getRecentProblems() without a limit on six stored problems, the newest
\* of which is not the first in storage, has returned five.
C22_Witness ==
  /\ last.op = "getRecentProblems" /\ last.args = <<>> /\ ~last.raised
  /\ Len(Doc.problems) = 6
  /\ Len(last.ret) = 5
  /\ last.ret[1].id # Doc.problems[1].id

\* The collection, and counter, of each create.
collectionOf(op) ==
  CASE op = "createProblem" -> "problems"
    [] op = "createIdea" -> "ideas"
    [] op = "createNote" -> "notes"

\* C23: a createProblem, createIdea or createNote call adds 1 to the counter
\* of its own collection, returns the new value of that counter, appends one
\* record with that id to its collection, and leaves the other three counters
\* and the other three collections as they were.
C23_CreateAdvancesOwnCounter ==
  (last.op \in CreateOps /\ ~last.raised) =>
    LET c == collectionOf(last.op) IN
    /\ Doc.counters = [Pre.counters EXCEPT ![c] = @ + 1]
    /\ last.ret = Doc.counters[c]
    /\ Len(Doc[c]) = Len(Pre[c]) + 1
    /\ SubSeq(Doc[c], 1, Len(Pre[c])) = Pre[c]
    /\ Doc[c][Len(Doc[c])].id = last.ret
    /\ \A o \in CounterNames \ {c} : Doc[o] = Pre[o]

\* The first idea has been created after two problems and has id 1.
C23_Witness ==
  /\ last.op = "createIdea" /\ ~last.raised
  /\ last.ret = 1
  /\ Pre.counters.problems = 2
  /\ Pre.counters.ideas = 0

\* C24: a deleteNote(id) that returns true removes the note with that id and
\* nothing else: problems, ideas, links, the other notes and the four
\* counters are as before.
C24_DeleteNoteNoCascade ==
  (last.op = "deleteNote" /\ ~last.raised /\ last.ret = TRUE) =>
    /\ last.args[1] \in idsOf(Pre.notes)
    /\ Doc = [Pre EXCEPT !.notes = SelectSeq(@, LAMBDA n : n.id # last.args[1])]

\* One of two notes of the same linked problem has been deleted.
C24_Witness ==
  /\ last.op = "deleteNote" /\ ~last.raised /\ last.ret = TRUE
  /\ Len(Pre.notes) = 2 /\ Len(Doc.notes) = 1
  /\ Pre.notes[1].problem_id = Pre.notes[2].problem_id
  /\ Pre.notes[1].problem_id \in idsOf(Pre.problems)
  /\ Pre.links # <<>>

\* C25: a successful deleteProblem(id) changes, in the notes, the problem_id
\* of the notes of that problem to null and nothing else, and a successful
\* deleteIdea(id) the idea_id of the notes of that idea to null and nothing
\* else: a note of both keeps its other reference, and the notes of other
\* records are as before.
C25_NoteReferencesIndependent ==
  /\ (last.op = "deleteProblem" /\ ~last.raised /\ last.ret = TRUE) =>
       /\ Len(Doc.notes) = Len(Pre.notes)
       /\ \A k \in 1..Len(Pre.notes) :
            Doc.notes[k] = IF Pre.notes[k].problem_id = last.args[1]
                           THEN [Pre.notes[k] EXCEPT !.problem_id = Null]
                           ELSE Pre.notes[k]
  /\ (last.op = "deleteIdea" /\ ~last.raised /\ last.ret = TRUE) =>
       /\ Len(Doc.notes) = Len(Pre.notes)
       /\ \A k \in 1..Len(Pre.notes) :
            Doc.notes[k] = IF Pre.notes[k].idea_id = last.args[1]
                           THEN [Pre.notes[k] EXCEPT !.idea_id = Null]
                           ELSE Pre.notes[k]

\* The idea of a note of a problem and that idea has been deleted, next to
\* a note of the problem alone: the first note still references the problem.
C25_Witness ==
  /\ last.op = "deleteIdea" /\ ~last.raised /\ last.ret = TRUE
  /\ Len(Pre.notes) = 2
  /\ \E j, k \in 1..2 :
       /\ Pre.notes[j].idea_id = last.args[1]
       /\ Pre.notes[j].problem_id \in idsOf(Pre.problems)
       /\ Doc.notes[j].problem_id = Pre.notes[j].problem_id
       /\ Doc.notes[j].idea_id = Null
       /\ Pre.notes[k].idea_id = Null
       /\ Doc.notes[k] = Pre.notes[k]

C27_ReadsLeaveStoreUnchanged ==
  (last.op \in ReadOps /\ ~last.raised /\ last.pre # NoItem) => stored = last.pre

\* getAllProblems has returned two problems newest first, and the older one
\* is still the first in storage.
C27_Witness ==
  /\ last.op = "getAllProblems" /\ ~last.raised
  /\ last.pre # NoItem
  /\ Len(last.ret) = 2
  /\ last.ret[1].id = 2
  /\ Doc.problems[1].id = 1

\* The links of the other ideas, in storage order.
linksOfOthers(links, idea_id) == SelectSeq(links, LAMBDA l : l.idea_id # idea_id)

\* C28: setProblemLinksForIdea(i, ps) leaves every link of another idea with
\* its id, problem_id and idea_id, leaves the problems, the ideas, the notes
\* and their counters as they were, and adds the length of ps to the links
\* counter.
C28_SetLinksFrame ==
  (last.op = "setProblemLinksForIdea" /\ ~last.raised) =>
    LET i == last.args[1]
        ps == last.args[2]
    IN /\ linksOfOthers(Doc.links, i) = linksOfOthers(Pre.links, i)
       /\ Doc.problems = Pre.problems
       /\ Doc.ideas = Pre.ideas
       /\ Doc.notes = Pre.notes
       /\ Doc.counters = [Pre.counters EXCEPT !.links = @ + Len(ps)]

\* Two problems have been set for an idea that had a link, next to a link of
\* another idea, two problems, two ideas and a note.
C28_Witness ==
  /\ last.op = "setProblemLinksForIdea" /\ ~last.raised
  /\ Len(last.args[2]) = 2
  /\ linksOfIdea(Pre.links, last.args[1]) # <<>>
  /\ linksOfOthers(Pre.links, last.args[1]) # <<>>
  /\ Len(Doc.problems) = 2 /\ Len(Doc.ideas) = 2 /\ Len(Doc.notes) = 1

\* No element of s is repeated.
noRepeats(s) == \A j, k \in 1..Len(s) : j # k => s[j] # s[k]

\* No two links of the same (problem_id, idea_id) pair.
noDuplicatePairs(links) ==
  \A j, k \in 1..Len(links) :
    j # k => ~(/\ links[j].problem_id = links[k].problem_id
               /\ links[j].idea_id = links[k].idea_id)

\* The last two toggles of the form were of the same problem.
toggledTwice ==
  /\ Len(page.toggles.toggled) = 2
  /\ page.toggles.toggled[1] = page.toggles.toggled[2]

\* The selection of the form holds no problem twice, handleSubmit passes
\* setProblemLinksForIdea no problem twice, and no pair is stored twice.
pageKeepsPairsUnique ==
  /\ noRepeats(page.form.linkedProblemIds)
  /\ (last.op = "setProblemLinksForIdea" /\ ~last.raised) => noRepeats(last.args[2])
  /\ noDuplicatePairs(Doc.links)

\* C30 as stated: with the links edited through the Ideas page only, the
\* selection passed to setProblemLinksForIdea holds no problem twice and no
\* (problem_id, idea_id) pair is stored twice, and after two toggles of the
\* same problem the selection of the form is the array it was before them.
C30_ToggleTwiceRestoresSelection ==
  /\ pageKeepsPairsUnique
  /\ toggledTwice => page.form.linkedProblemIds = page.toggles.before[1]

\* C30, amended: the same, except that after two toggles of the same
\* problem the selection holds the same problems as before them, each once,
\* in an order that may differ.
C30_ToggleTwiceRestoresSelectedSet ==
  /\ pageKeepsPairsUnique
  /\ toggledTwice =>
       /\ Range(page.form.linkedProblemIds) = Range(page.toggles.before[1])
       /\ Len(page.form.linkedProblemIds) = Len(page.toggles.before[1])

\* An idea linked to problems 1 and 2 was edited, problem 1 toggled twice,
\* and the form saved: the selection <<1, 2>> was passed as <<2, 1>>, and
\* the idea has two links again.
C30_Witness ==
  /\ last.op = "setProblemLinksForIdea" /\ ~last.raised
  /\ toggledTwice
  /\ page.toggles.before[1] = <<1, 2>>
  /\ last.args[2] = <<2, 1>>
  /\ Len(linksOfIdea(Pre.links, last.args[1])) = 2
  /\ Len(linksOfIdea(Doc.links, last.args[1])) = 2

====
